---- MODULE Spec2Model ----
(***************************************************************************)
(* The GitMCP tool route of mcp-ken: the POST handler, the cached Mastra   *)
(* handle (mastraPromise), the agent-based flow (liveness probe, then      *)
(* githubAgent.generate) and the deterministic pipeline                    *)
(* (fallbackProcessing -> executeGitHubTools -> generateLLMResponse).      *)
(*                                                                         *)
(* The hosting runtime is a single-threaded event loop.  An action is one  *)
(* task of the loop together with the microtasks it queues: the code that  *)
(* runs when a request arrives or when a network call, a timer or the      *)
(* agent construction settles, up to the next await on such an event.  A   *)
(* promise that settles resumes every handler awaiting it in the same      *)
(* step, in the order in which they started to wait.                       *)
(***************************************************************************)
EXTENDS Integers, Sequences, FiniteSets, TLC

\* Number of request slots the hosting runtime serves concurrently.
NumReq == 2

Req == 1..NumReq
\* Identities for the promises getMastraComponents creates: the cached one
\* and one per request that could still hold another.
PromiseIds == 1..(NumReq + 1)

VARIABLES
  mastraPromise,  \* module variable: 0 (null) or the id of the cached promise
  promises,       \* by id: state, waiting handlers, the resolved runtimeContext
  req,            \* per request slot: the handler's local state (of the
                  \* results array, the names of the ToolResults pushed)
  event,          \* what the last step observed of its input or upstream outcome
  sent,           \* the response the last step sent, if any
  tool,           \* one fetcher invocation followed on its own, with the
                  \* value it returns and the ToolResult made of it
  llm,            \* one generateLLMResponse call followed on its own: its
                  \* arguments, the prompt and the locals of simulateLLMCall
  search,         \* one derivation of the code-search string from a query
  fb,             \* fallbackProcessing calls followed one after the other, with
                  \* the contents of the upstream answers and of the response
  agent,          \* one createGitHubAgent call followed on its own
  ui              \* the UI component's state: repoOwner, repoName, recentRepos,
                  \* the error message, and localStorage

vars == <<mastraPromise, promises, req, event, sent, tool, llm, search, fb, agent, ui>>

(***************************************************************************)
(* JavaScript values of the request body.                                  *)
(***************************************************************************)
Undefined == [t |-> "undefined", v |-> ""]
Str(s) == [t |-> "string", v |-> s]
Num(s) == [t |-> "number", v |-> s]

\* JavaScript truthiness of a body field: undefined, "" and 0 are falsy.
Truthy(x) ==
  ~ (x.t = "undefined" \/ (x.t = "string" /\ x.v = "") \/ (x.t = "number" /\ x.v = "0"))

Question == "How do I run this?"

\* The request bodies the environment sends.
Bodies ==
  { [query |-> Undefined,     owner |-> Undefined,   repo |-> Undefined],
    [query |-> Str(""),       owner |-> Str("octo"), repo |-> Str("demo")],
    [query |-> Num("0"),      owner |-> Undefined,   repo |-> Undefined],
    [query |-> Num("42"),     owner |-> Str("acme"), repo |-> Str("lib")],
    [query |-> Str(Question), owner |-> Undefined,   repo |-> Undefined],
    [query |-> Str(Question), owner |-> Str("octo"), repo |-> Undefined],
    [query |-> Str(Question), owner |-> Str("octo"), repo |-> Str("demo")],
    [query |-> Str(Question), owner |-> Str("acme"), repo |-> Str("lib")] }

NoBody == [query |-> Undefined, owner |-> Undefined, repo |-> Undefined]

\* A validation that forgets the !query test.
IsValidQueryTypeOnly(q) == q.t = "string"

\* POST's validation: !query || typeof query !== "string" is the negation.
IsValidQuery(q) == Truthy(q) /\ q.t = "string"

(***************************************************************************)
(* The runtime context created with the agent handle.                      *)
(***************************************************************************)
NoContext == [owner |-> "", name |-> ""]
createDefaultRuntimeContext == [owner |-> "eddycjy", name |-> "go-gin-example"]

DefaultRepoIdentifier == "eddycjy/go-gin-example"

(***************************************************************************)
(* JavaScript strings.  Indices count from 0 as in the source; a string    *)
(* is a sequence of UTF-16 code units.                                     *)
(***************************************************************************)
Clamp(i, n) == IF i < 0 THEN 0 ELSE IF i > n THEN n ELSE i

\* s[i], "" outside the string
CharAt(s, i) == IF i < 0 \/ i >= Len(s) THEN "" ELSE SubSeq(s, i + 1, i + 1)

\* s.substring(a, b): both ends clamped, swapped when a > b
Substring(s, a, b) ==
  LET x == Clamp(a, Len(s))
      y == Clamp(b, Len(s))
  IN IF x <= y THEN SubSeq(s, x + 1, y) ELSE SubSeq(s, y + 1, x)

\* s.substring(a)
SubstringFrom(s, a) == Substring(s, a, Len(s))

\* pat occurs in s at index i
OccursAt(s, pat, i) == i >= 0 /\ i + Len(pat) <= Len(s) /\ SubSeq(s, i + 1, i + Len(pat)) = pat

\* s.indexOf(pat, from): the first index at or after from, or -1
IndexOf(s, pat, from) ==
  LET first == Clamp(from, Len(s))
      range == first..(Len(s) - Len(pat))
  IN IF \E i \in range : OccursAt(s, pat, i)
       THEN CHOOSE i \in range :
              OccursAt(s, pat, i) /\ \A j \in first..(i - 1) : ~ OccursAt(s, pat, j)
       ELSE -1

\* s.includes(pat)
Includes(s, pat) == IndexOf(s, pat, 0) > -1

\* \s and \d of the regular expressions
WhiteSpace == {" ", "\t", "\n", "\r", "\f"}
Digits == {"0", "1", "2", "3", "4", "5", "6", "7", "8", "9"}
UpperCase == "ABCDEFGHIJKLMNOPQRSTUVWXYZ"
LowerCase == "abcdefghijklmnopqrstuvwxyz"

\* s.trim()
Trim(s) ==
  IF \A i \in 0..(Len(s) - 1) : CharAt(s, i) \in WhiteSpace THEN ""
  ELSE LET first == CHOOSE i \in 0..(Len(s) - 1) :
                      /\ CharAt(s, i) \notin WhiteSpace
                      /\ \A j \in 0..(i - 1) : CharAt(s, j) \in WhiteSpace
           last == CHOOSE i \in 0..(Len(s) - 1) :
                      /\ CharAt(s, i) \notin WhiteSpace
                      /\ \A j \in (i + 1)..(Len(s) - 1) : CharAt(s, j) \in WhiteSpace
       IN Substring(s, first, last + 1)

RECURSIVE ToLowerCase(_)
\* s.toLowerCase()
ToLowerCase(s) ==
  IF Len(s) = 0 THEN ""
  ELSE IF Len(s) = 1
    THEN IF \E i \in 1..26 : SubSeq(UpperCase, i, i) = s
           THEN LET i == CHOOSE i \in 1..26 : SubSeq(UpperCase, i, i) = s
                IN SubSeq(LowerCase, i, i)
           ELSE s
  ELSE LET h == Len(s) \div 2
       IN ToLowerCase(SubSeq(s, 1, h)) \o ToLowerCase(SubSeq(s, h + 1, Len(s)))

\* The end of the run of characters of class `set` that starts at index j.
RunEnd(s, j, set) ==
  CHOOSE k \in j..Len(s) :
    /\ k = Len(s) \/ CharAt(s, k) \notin set
    /\ \A m \in j..(k - 1) : CharAt(s, m) \in set

NoMatch == [found |-> FALSE, group |-> ""]

\* One attempt of /key\s*"([^"]+)"/ at index i (without the \s* when ~ws).
MatchQuotedAt(s, i, key, ws) ==
  LET j == IF ws THEN RunEnd(s, i + Len(key), WhiteSpace) ELSE i + Len(key)
      k == IndexOf(s, "\"", j + 1)
  IN IF OccursAt(s, key, i) /\ CharAt(s, j) = "\"" /\ k > j + 1
       THEN [found |-> TRUE, group |-> Substring(s, j + 1, k)]
       ELSE NoMatch

\* One attempt of /key\s*(\d+)/ at index i.
MatchDigitsAt(s, i, key) ==
  LET j == RunEnd(s, i + Len(key), WhiteSpace)
      k == RunEnd(s, j, Digits)
  IN IF OccursAt(s, key, i) /\ k > j
       THEN [found |-> TRUE, group |-> Substring(s, j, k)]
       ELSE NoMatch

\* One attempt at index i of the regular expression made of key and tail.
AttemptAt(s, i, key, tail) ==
  IF tail = "\\s*(\\d+)"
    THEN MatchDigitsAt(s, i, key)
    ELSE MatchQuotedAt(s, i, key, tail = "\\s*\"([^\"]+)\"")

\* s.match(re): the leftmost index at which an attempt succeeds.
FirstMatch(s, key, tail) ==
  LET range == 0..(Len(s) - Len(key))
      ok(i) == OccursAt(s, key, i) /\ AttemptAt(s, i, key, tail).found
  IN IF \E i \in range : ok(i)
       THEN AttemptAt(s, CHOOSE i \in range : ok(i) /\ \A j \in 0..(i - 1) : ~ ok(j),
                      key, tail)
       ELSE NoMatch

MatchQuoted(s, key, ws) ==
  FirstMatch(s, key, IF ws THEN "\\s*\"([^\"]+)\"" ELSE "\"([^\"]+)\"")
MatchDigits(s, key) == FirstMatch(s, key, "\\s*(\\d+)")

RECURSIVE Repeat(_, _)
\* s.repeat(n)
Repeat(s, n) ==
  IF n = 0 THEN ""
  ELSE IF n % 2 = 0 THEN LET h == Repeat(s, n \div 2) IN h \o h
  ELSE s \o Repeat(s, n - 1)

(***************************************************************************)
(* GitHub payloads and the values the fetchers return.                     *)
(***************************************************************************)
Obj(v)  == [t |-> "object", v |-> v]
Arr(v)  == [t |-> "array",  v |-> v]
Text(v) == [t |-> "string", v |-> v]

\* JSON.stringify of a parsed payload.
JSONStringify(x) ==
  IF x.t = "array" THEN "[" \o x.v \o "]"
  ELSE IF x.t = "object" THEN "{" \o x.v \o "}"
  ELSE "\"" \o x.v \o "\""

\* What GitHub holds for a repository.
RepositoryJson(repo) == Obj("\"full_name\": \"" \o repo \o "\"")
ReadmeText(repo)     == "## Installation of " \o repo
SearchItems(repo)    == Arr("{\"path\": \"main.go\", \"repo\": \"" \o repo \o "\"}")
ContentsListing(repo) == Arr("{\"name\": \"README.md\", \"repo\": \"" \o repo \o "\"}")

\* An object {error: msg}.
ErrorObject(msg) == Obj("\"error\": \"" \o msg \o "\"")

Return(v) == [raised |-> FALSE, value |-> v]
Raise(msg) == [raised |-> TRUE, value |-> Text(msg)]

\* Bodies GitHub answers with when a repository holds something else: the
\* repository object of the documentation's end-to-end example, and READMEs
\* of several layouts (the last has its Installation section beyond the
\* first 2000 characters).
MetadataBodies == {"json", "json:stars"}
ReadmeBodies == {"content", "content:usage", "content:table", "content:long"}
MetadataBody(repo, o) ==
  IF o = "json:stars" THEN Obj("\"stargazers_count\":10,\"description\":\"test repo\"")
  ELSE RepositoryJson(repo)
ReadmeBody(repo, o) ==
  IF o = "content:usage" THEN "## Installation\nRun npm install\n## Usage\nnpm start\n"
  ELSE IF o = "content:table"
    THEN "## Features\n| a | b |\n|---|---|\n| 1 | 2 |\n## Installation\npip install x\n"
  ELSE IF o = "content:long"
    THEN "# Demo\n" \o Repeat("w", 2000) \o "\n## Installation\nmake\n"
  ELSE ReadmeText(repo)

\* How one GET can end: the fetch rejects, the status is not 2xx, the body
\* does not parse, or a body of one of the shapes below arrives.
FetchFailures == {"neterr", "nonok", "badjson"}
MetadataOutcomes == FetchFailures \cup {"json"}
ReadmeOutcomes == FetchFailures \cup {"nocontent", "badbase64", "content"}
SearchOutcomes == FetchFailures \cup {"noitems", "items"}
ContentsOutcomes == FetchFailures \cup {"list"}

\* Pipeline fetcher: the catch block logs and rethrows.
fetchRepositoryMetadata(repo, o) ==
  IF o \in MetadataBodies THEN Return(MetadataBody(repo, o))
  ELSE IF o = "nonok" THEN Raise("GitHub API error")
  ELSE Raise(o)

\* Agent tool of the same name: the catch block returns an error object.
fetchRepositoryMetadataTool(repo, o) ==
  IF o \in MetadataBodies THEN Return(MetadataBody(repo, o))
  ELSE Return(ErrorObject("Failed to fetch repository metadata"))

\* A README fetcher whose catch block rethrows, as the metadata one does.
fetchRepositoryReadmeRethrows(repo, o) ==
  IF o \in ReadmeBodies THEN Return(Text(ReadmeBody(repo, o)))
  ELSE IF o = "nocontent" THEN Return(Text("README content not available"))
  ELSE Raise(o)

\* Pipeline fetcher: data.content is decoded with atob, which throws on a
\* string that is not base64; every failure ends in the catch block.
fetchRepositoryReadme(repo, o) ==
  IF o \in ReadmeBodies THEN Return(Text(ReadmeBody(repo, o)))
  ELSE IF o = "nocontent" THEN Return(Text("README content not available"))
  ELSE Return(Text("Could not fetch README content due to an error"))

\* Pipeline fetcher, the code-search call: NeedsContents is the branch
\* !response.ok that goes on to GET /contents.
SearchNeedsContents(o) == o = "nonok"
searchRepositoryContents(repo, o) ==
  IF o = "items" THEN Return(SearchItems(repo))
  ELSE Return(Arr(""))

\* Pipeline fetcher, the call to /contents made after a failed search.
searchRepositoryContentsFallback(repo, o) ==
  IF o = "list" THEN Return(ContentsListing(repo))
  ELSE Return(Arr(""))

fetchRepositoryStructure(repo, o) ==
  IF o = "list" THEN Return(ContentsListing(repo))
  ELSE Return(Arr(""))

\* Agent tool fetchRepositoryReadme: an object with the decoded content, or
\* an error object.
fetchRepositoryReadmeTool(repo, o) ==
  IF o \in ReadmeBodies
    THEN Return(Obj("\"content\": \"" \o ReadmeBody(repo, o) \o "\""))
  ELSE IF o = "nocontent" THEN Return(ErrorObject("README content not available"))
  ELSE Return(ErrorObject("Failed to fetch README content"))

\* An object {items: ...} with further members.
ItemsObject(items, more) == Obj("\"items\": " \o JSONStringify(items) \o more)

\* Agent tool searchRepositoryContents, the code-search call; a status that
\* is not ok goes on to GET /contents (SearchNeedsContents).
searchRepositoryContentsTool(repo, o) ==
  IF o = "items" THEN Return(ItemsObject(SearchItems(repo), ""))
  ELSE IF o = "noitems" THEN Return(ItemsObject(Arr(""), ""))
  ELSE Return(ItemsObject(Arr(""), ", \"error\": \"Failed to search repository contents\""))

\* Agent tool searchRepositoryContents, the call to /contents.
searchRepositoryContentsToolFallback(repo, o) ==
  IF o = "list"
    THEN Return(ItemsObject(ContentsListing(repo),
           ", \"note\": \"Fallback to repository contents due to search API limitations\""))
  ELSE IF o = "nonok" THEN Return(ItemsObject(Arr(""), ""))
  ELSE Return(ItemsObject(Arr(""), ", \"error\": \"Failed to search repository contents\""))

(***************************************************************************)
(* The handler's local state, responses and observations.                  *)
(***************************************************************************)
Idle == [pc |-> "idle", body |-> NoBody, awaited |-> 0, inflight |-> {},
         repoIdentifier |-> "", results |-> <<>>]

NoEvent == [type |-> "none"]
NoResponse == [req |-> 0, status |-> 0, key |-> "", value |-> <<>>]
NoTool == [stage |-> "idle"]
NoLLM == [stage |-> "idle"]
NoSearch == [stage |-> "idle"]
NoReplay == [recorded |-> FALSE]
NoFallback == [stage |-> "idle", context |-> createDefaultRuntimeContext, replay |-> NoReplay]
NoAgent == [stage |-> "idle"]
\* The page before its effects have run: the useState defaults, and the
\* browser's storage with nothing saved.
InitialUI ==
  [mounted |-> FALSE, repoOwner |-> "eddycjy", repoName |-> "go-gin-example",
   githubUrl |-> "", error |-> "", response |-> "", recentRepos |-> <<>>,
   localStorage |-> [k \in {} |-> ""], loaded |-> <<>>, submit |-> "none"]

\* NextResponse.json(body, {status})
Json(status, key, value) == [status |-> status, key |-> key, value |-> value]

\* A handler step ends either suspended at an await (Await) or by returning
\* a response, after which the request's local state is gone (Return...).
Await(l) == [local |-> l, response |-> Json(0, "", <<>>)]
\* A handler that ends by an exception escaping it instead.
AnswerEscapes(resp) == [local |-> Idle, response |-> Json(0, "", <<>>)]
Answer(resp) == [local |-> Idle, response |-> resp]

\* The step's effect on request r's slot and on the response channel.
Step(r, out) ==
  /\ req' = [req EXCEPT ![r] = out.local]
  /\ sent' = [req |-> IF out.response.status = 0 THEN 0 ELSE r,
              status |-> out.response.status, key |-> out.response.key,
              value |-> out.response.value]

Init ==
  /\ mastraPromise = 0
  /\ promises = [p \in PromiseIds |->
                   [state |-> "none", reactions |-> <<>>, runtimeContext |-> NoContext]]
  /\ req = [r \in Req |-> Idle]
  /\ event = NoEvent
  /\ sent = NoResponse
  /\ tool = NoTool
  /\ llm = NoLLM
  /\ search = NoSearch
  /\ fb = NoFallback
  /\ agent = NoAgent
  /\ ui = InitialUI

(***************************************************************************)
(* fallbackProcessing, executeGitHubTools, generateLLMResponse             *)
(***************************************************************************)
\* owner && repo ? `${owner}/${repo}` : "eddycjy/go-gin-example"
RepoIdentifierOf(owner, repo) ==
  IF Truthy(owner) /\ Truthy(repo) THEN owner.v \o "/" \o repo.v
  ELSE DefaultRepoIdentifier

\* fallbackProcessing(query, owner, repo) up to its first await, the metadata
\* fetch issued by executeGitHubTools.
fallbackProcessing(query, owner, repo) ==
  Await([pc |-> "executeGitHubTools",
         body |-> [query |-> query, owner |-> owner, repo |-> repo],
         awaited |-> 0,
         inflight |-> {"fetch_repository_metadata"},
         repoIdentifier |-> RepoIdentifierOf(owner, repo),
         results |-> <<>>])

\* An orchestrator that starts readme and search together.
NextToolOverlapping(name) ==
  IF name = "fetch_repository_metadata"
    THEN {"fetch_repository_readme", "search_repository_contents"}
  ELSE IF name = "search_repository_contents" THEN {"fetch_repository_structure"}
  ELSE {}

\* The fetch executeGitHubTools issues once the named tool has returned.
NextTool(name) ==
  IF name = "fetch_repository_metadata" THEN {"fetch_repository_readme"}
  ELSE IF name = "fetch_repository_readme" THEN {"search_repository_contents"}
  ELSE IF name = "search_repository_contents" THEN {"fetch_repository_structure"}
  ELSE {}

\* The fetcher a network call belongs to.
FetcherOf(call) ==
  IF call = "search_repository_contents:contents" THEN "search_repository_contents"
  ELSE call

\* content of the ToolResult: JSON.stringify, except for the README text.
ToolContent(name, v) ==
  IF name = "fetch_repository_readme" THEN v.v ELSE JSONStringify(v)

\* The ToolResult executeGitHubTools pushes for a fetcher's return value.
ToolResult(name, v) == [name |-> name, content |-> ToolContent(name, v)]

\* An orchestrator whose catch returns the results gathered so far.
ToolSettledPartial(l, call, name, ret) ==
  IF ret.raised
    THEN Await([l EXCEPT !.inflight = {"timer"}, !.pc = "simulateLLMCall"])
    ELSE LET left == (l.inflight \ {call}) \cup NextTool(name)
         IN Await([l EXCEPT
              !.results = Append(@, ToolResult(name, ret.value).name),
              !.inflight = IF left = {} THEN {"timer"} ELSE left,
              !.pc = IF left = {} THEN "simulateLLMCall" ELSE @])

\* An orchestrator that issues a failed fetch again.
ToolSettledRetries(l, call, name, ret) ==
  IF ret.raised
    THEN Await(l)
    ELSE LET left == (l.inflight \ {call}) \cup NextTool(name)
         IN Await([l EXCEPT
              !.results = Append(@, ToolResult(name, ret.value).name),
              !.inflight = IF left = {} THEN {"timer"} ELSE left,
              !.pc = IF left = {} THEN "simulateLLMCall" ELSE @])

\* executeGitHubTools after the fetcher `name`, answering to `call`, has
\* returned or raised (ret): push and go on, or rethrow into
\* fallbackProcessing's catch.
ToolSettled(l, call, name, ret) ==
  IF ret.raised
    THEN Answer(Json(500, "error", <<"Failed to process request in fallback mode">>))
    ELSE LET left == (l.inflight \ {call}) \cup NextTool(name)
         IN Await([l EXCEPT
              !.results = Append(@, ToolResult(name, ret.value).name),
              !.inflight = IF left = {} THEN {"timer"} ELSE left,
              !.pc = IF left = {} THEN "simulateLLMCall" ELSE @])

MetadataSettles(r, o) ==
  /\ req[r].pc = "executeGitHubTools"
  /\ "fetch_repository_metadata" \in req[r].inflight
  /\ Step(r, ToolSettled(req[r], "fetch_repository_metadata", "fetch_repository_metadata",
                         fetchRepositoryMetadata(req[r].repoIdentifier, o)))
  /\ event' = NoEvent
  /\ UNCHANGED <<mastraPromise, promises, tool, llm, search, fb, agent, ui>>

ReadmeSettles(r, o) ==
  /\ req[r].pc = "executeGitHubTools"
  /\ "fetch_repository_readme" \in req[r].inflight
  /\ Step(r, ToolSettled(req[r], "fetch_repository_readme", "fetch_repository_readme",
                         fetchRepositoryReadme(req[r].repoIdentifier, o)))
  /\ event' = NoEvent
  /\ UNCHANGED <<mastraPromise, promises, tool, llm, search, fb, agent, ui>>

SearchSettles(r, o) ==
  /\ req[r].pc = "executeGitHubTools"
  /\ "search_repository_contents" \in req[r].inflight
  /\ IF SearchNeedsContents(o)
       THEN Step(r, Await([req[r] EXCEPT !.inflight =
                   (@ \ {"search_repository_contents"})
                     \cup {"search_repository_contents:contents"}]))
       ELSE Step(r, ToolSettled(req[r], "search_repository_contents",
                                "search_repository_contents",
                                searchRepositoryContents(req[r].repoIdentifier, o)))
  /\ event' = NoEvent
  /\ UNCHANGED <<mastraPromise, promises, tool, llm, search, fb, agent, ui>>

SearchContentsSettles(r, o) ==
  /\ req[r].pc = "executeGitHubTools"
  /\ "search_repository_contents:contents" \in req[r].inflight
  /\ Step(r, ToolSettled(req[r], "search_repository_contents:contents",
                         "search_repository_contents",
                         searchRepositoryContentsFallback(req[r].repoIdentifier, o)))
  /\ event' = NoEvent
  /\ UNCHANGED <<mastraPromise, promises, tool, llm, search, fb, agent, ui>>

StructureSettles(r, o) ==
  /\ req[r].pc = "executeGitHubTools"
  /\ "fetch_repository_structure" \in req[r].inflight
  /\ Step(r, ToolSettled(req[r], "fetch_repository_structure", "fetch_repository_structure",
                         fetchRepositoryStructure(req[r].repoIdentifier, o)))
  /\ event' = NoEvent
  /\ UNCHANGED <<mastraPromise, promises, tool, llm, search, fb, agent, ui>>

\* How prompt synthesis and text extraction end inside generateLLMResponse.
SynthesisOutcomes == {"text", "throws"}

\* A generateLLMResponse without its outer catch.
LLMResponseRethrows(o) ==
  IF o = "throws" THEN Raise("TypeError") ELSE Return(Text("llmResponse"))

\* What generateLLMResponse returns: the text of simulateLLMCall, or the
\* apology of its outer catch.
LLMResponse(o) ==
  IF o = "throws"
    THEN Return(Text("I encountered an error while processing the repository information. "
                       \o "Please try again later."))
    ELSE Return(Text("llmResponse"))

\* generateLLMResponse: simulateLLMCall's timer fires and the text is
\* returned as a 200 by fallbackProcessing, whose catch covers a raise.
SimulateTimerFires(r, o) ==
  /\ req[r].pc = "simulateLLMCall"
  /\ "timer" \in req[r].inflight
  /\ LET ret == LLMResponse(o)
     IN IF ret.raised
          THEN Step(r, Answer(Json(500, "error",
                                   <<"Failed to process request in fallback mode">>)))
          ELSE Step(r, Answer(Json(200, "response", <<ret.value.v>>)))
  /\ event' = NoEvent
  /\ UNCHANGED <<mastraPromise, promises, tool, llm, search, fb, agent, ui>>

(***************************************************************************)
(* The cached agent handle: getMastraComponents and initializeMastra.      *)
(***************************************************************************)
NoPromise == [state |-> "none", reactions |-> <<>>, runtimeContext |-> NoContext]

\* A getMastraComponents without the cache test.
AlwaysInitialize(mp) == TRUE

\* if (!mastraPromise)
NeedsInitialization(mp) == mp = 0

\* A .catch handler that forgets to reset the cache.
CacheKeptAfterFailure(mp) == mp

\* mastraPromise = null in the .catch handler.
CacheAfterFailure(mp) == 0

UnusedPromiseIds == {p \in PromiseIds : promises[p].state = "none"}
NewPromiseId == CHOOSE p \in UnusedPromiseIds : \A q \in UnusedPromiseIds : p <= q

\* getMastraComponents(): the promise it returns, after starting
\* initializeMastra when nothing is cached.
getMastraComponents == IF NeedsInitialization(mastraPromise) THEN NewPromiseId ELSE mastraPromise

\* runtimeContext.set(...) when the request names owner and repo.
SetContext(ctx, b) ==
  IF Truthy(b.owner) /\ Truthy(b.repo)
    THEN [owner |-> b.owner.v, name |-> b.repo.v]
    ELSE ctx

\* The continuation of `await getMastraComponents()` on fulfilment, up to
\* the liveness probe.
POSTAfterMastra(l) == Await([l EXCEPT !.pc = "probe", !.inflight = {"probe"}])

\* catch (error) of the agent flow, lines 99-104.
POSTCatchMastra(l) == fallbackProcessing(l.body.query, l.body.owner, l.body.repo)

\* A catch block that reports the failure instead of falling back.
POSTCatchLLMSurfaces(l) == Answer(Json(500, "error", <<"Failed to process request">>))

\* catch (error) around the probe and the completion call, lines 95-98.
POSTCatchLLM(l) == fallbackProcessing(l.body.query, l.body.owner, l.body.repo)

\* The runtime context after the handlers in `waiters` resumed in order.
RECURSIVE ContextAfter(_, _)
ContextAfter(ctx, waiters) ==
  IF waiters = <<>> THEN ctx
  ELSE ContextAfter(SetContext(ctx, req[Head(waiters)].body), Tail(waiters))

Range(f) == {f[i] : i \in DOMAIN f}

\* The response, if any, of the lowest slot among rs whose step answered.
FirstAnswer(rs, out(_)) ==
  LET answered == {r \in rs : out(r).response.status # 0}
  IN IF answered = {} THEN NoResponse
     ELSE LET r == CHOOSE x \in answered : \A y \in answered : x <= y
          IN [req |-> r, status |-> out(r).response.status,
              key |-> out(r).response.key, value |-> out(r).response.value]

\* initializeMastra() of promise p settles.  On success the .then handler
\* fulfils the cached promise with the agent and a default runtime context;
\* on failure the .catch handler resets the cache and rejects.  Every
\* handler awaiting the promise resumes.
initializeMastra(p, ok) ==
  /\ promises[p].state = "pending"
  /\ LET waiters == promises[p].reactions
         cache == IF ok THEN mastraPromise ELSE CacheAfterFailure(mastraPromise)
         out(r) == IF ok THEN POSTAfterMastra(req[r]) ELSE POSTCatchMastra(req[r])
     IN /\ mastraPromise' = cache
        /\ promises' = [promises EXCEPT ![p] =
             IF ok
               THEN [state |-> "fulfilled", reactions |-> <<>>,
                     runtimeContext |-> ContextAfter(createDefaultRuntimeContext, waiters)]
               ELSE IF cache = p
                 THEN [state |-> "rejected", reactions |-> <<>>,
                       runtimeContext |-> NoContext]
                 ELSE NoPromise]
        /\ req' = [r \in Req |-> IF r \in Range(waiters) THEN out(r).local ELSE req[r]]
        /\ sent' = FirstAnswer(Range(waiters), out)
  /\ event' = NoEvent
  /\ UNCHANGED <<tool, llm, search, fb, agent, ui>>

(***************************************************************************)
(* POST                                                                    *)
(***************************************************************************)
\* Requests take the lowest free slot.
FreeSlot(r) == req[r].pc = "idle" /\ \A s \in 1..(r - 1) : req[s].pc # "idle"

\* A request arrives whose body request.json() cannot parse: outer catch.
POSTUnparsable(r) ==
  /\ FreeSlot(r)
  /\ event' = [type |-> "request", req |-> r, parsed |-> FALSE, body |-> NoBody]
  /\ Step(r, Answer(Json(500, "error", <<"Failed to process request">>)))
  /\ UNCHANGED <<mastraPromise, promises, tool, llm, search, fb, agent, ui>>

\* A request arrives with body b: validation, then getMastraComponents(),
\* whose promise is awaited; a promise already settled resumes the handler
\* at once.
POSTStart(r, b) ==
  /\ FreeSlot(r)
  /\ event' = [type |-> "request", req |-> r, parsed |-> TRUE, body |-> b]
  /\ IF ~ IsValidQuery(b.query)
       THEN /\ Step(r, Answer(Json(400, "error", <<"Invalid query parameter">>)))
            /\ UNCHANGED <<mastraPromise, promises>>
       ELSE /\ NeedsInitialization(mastraPromise) => UnusedPromiseIds # {}
            /\ LET p == getMastraComponents
                   state == IF NeedsInitialization(mastraPromise)
                              THEN "pending" ELSE promises[p].state
                   l == [Idle EXCEPT !.body = b, !.awaited = p,
                                     !.pc = "getMastraComponents"]
               IN /\ mastraPromise' = p
                  /\ IF state = "pending"
                       THEN /\ promises' = [promises EXCEPT ![p] =
                                  [state |-> "pending",
                                   reactions |-> Append(promises[p].reactions, r),
                                   runtimeContext |-> NoContext]]
                            /\ Step(r, Await(l))
                       ELSE IF state = "fulfilled"
                         THEN /\ promises' = [promises EXCEPT ![p].runtimeContext =
                                                SetContext(@, b)]
                              /\ Step(r, POSTAfterMastra(l))
                         ELSE /\ UNCHANGED promises
                              /\ Step(r, POSTCatchMastra(l))
  /\ UNCHANGED <<tool, llm, search, fb, agent, ui>>

\* The runtime context object request r holds a reference to.
ContextOf(r) == promises[req[r].awaited].runtimeContext

ProbeOutcomes == {"ok", "nonok", "neterr"}

\* A probe that only cares that the service answered at all.
ProbeAllowsGenerateAnyStatus(o) == o # "neterr"

\* The liveness probe lets the completion call go ahead: ollamaTest.ok.
ProbeAllowsGenerate(o) == o = "ok"

\* fetch("http://localhost:11434/api/version") settles: generate is called
\* with the runtime context, or the fallback starts.
ProbeSettles(r, o) ==
  /\ req[r].pc = "probe"
  /\ "probe" \in req[r].inflight
  /\ event' = [type |-> "settled", req |-> r, call |-> "probe", outcome |-> o,
               runtimeContext |-> ContextOf(r)]
  /\ IF ProbeAllowsGenerate(o)
       THEN Step(r, Await([req[r] EXCEPT !.pc = "generate", !.inflight = {"generate"}]))
       ELSE IF o = "nonok"
         THEN Step(r, fallbackProcessing(req[r].body.query, req[r].body.owner,
                                         req[r].body.repo))
         ELSE Step(r, POSTCatchLLM(req[r]))
  /\ UNCHANGED <<mastraPromise, promises, tool, llm, search, fb, agent, ui>>

\* While generate runs, the agent evaluates its instructions or executes a
\* tool without owner/repo input: both read the runtime context.
AgentTool(r) ==
  /\ req[r].pc = "generate"
  /\ event' = [type |-> "agentTool", req |-> r, runtimeContext |-> ContextOf(r)]
  /\ sent' = NoResponse
  /\ UNCHANGED <<mastraPromise, promises, req, tool, llm, search, fb, agent, ui>>

\* githubAgent.generate(...) settles.
GenerateSettles(r, ok) ==
  /\ req[r].pc = "generate"
  /\ "generate" \in req[r].inflight
  /\ event' = [type |-> "settled", req |-> r, call |-> "generate",
               outcome |-> IF ok THEN "ok" ELSE "throws"]
  /\ IF ok
       THEN Step(r, Answer(Json(200, "response", <<"agentResponse.text">>)))
       ELSE Step(r, POSTCatchLLM(req[r]))
  /\ UNCHANGED <<mastraPromise, promises, tool, llm, search, fb, agent, ui>>

Next ==
  \/ \E r \in Req : POSTUnparsable(r)
  \/ \E r \in Req, b \in Bodies : POSTStart(r, b)
  \/ \E p \in PromiseIds, ok \in BOOLEAN : initializeMastra(p, ok)
  \/ \E r \in Req, o \in ProbeOutcomes : ProbeSettles(r, o)
  \/ \E r \in Req : AgentTool(r)
  \/ \E r \in Req, ok \in BOOLEAN : GenerateSettles(r, ok)
  \/ \E r \in Req, o \in MetadataOutcomes : MetadataSettles(r, o)
  \/ \E r \in Req, o \in ReadmeOutcomes : ReadmeSettles(r, o)
  \/ \E r \in Req, o \in SearchOutcomes : SearchSettles(r, o)
  \/ \E r \in Req, o \in ContentsOutcomes : SearchContentsSettles(r, o)
  \/ \E r \in Req, o \in ContentsOutcomes : StructureSettles(r, o)
  \/ \E r \in Req, o \in SynthesisOutcomes : SimulateTimerFires(r, o)

Spec == Init /\ [][Next]_vars

\* Every upstream call of a request completes or fails, and timers fire.
UpstreamSettles ==
  /\ \A p \in PromiseIds : WF_vars(\E ok \in BOOLEAN : initializeMastra(p, ok))
  /\ \A r \in Req :
       /\ WF_vars(\E o \in ProbeOutcomes : ProbeSettles(r, o))
       /\ WF_vars(\E ok \in BOOLEAN : GenerateSettles(r, ok))
       /\ WF_vars(\E o \in MetadataOutcomes : MetadataSettles(r, o))
       /\ WF_vars(\E o \in ReadmeOutcomes : ReadmeSettles(r, o))
       /\ WF_vars(\E o \in SearchOutcomes : SearchSettles(r, o))
       /\ WF_vars(\E o \in ContentsOutcomes : SearchContentsSettles(r, o))
       /\ WF_vars(\E o \in ContentsOutcomes : StructureSettles(r, o))
       /\ WF_vars(\E o \in SynthesisOutcomes : SimulateTimerFires(r, o))

SpecLive == Spec /\ UpstreamSettles

\* What the code itself bounds in time: generate is called with a timeout
\* of 60 s and simulateLLMCall sleeps for 1 s; every fetch is issued
\* without a signal or a timeout and may stay pending for ever.
BoundedCalls ==
  \A r \in Req :
    /\ WF_vars(\E ok \in BOOLEAN : GenerateSettles(r, ok))
    /\ WF_vars(\E o \in SynthesisOutcomes : SimulateTimerFires(r, o))

SpecTimeouts == Spec /\ BoundedCalls

(***************************************************************************)
(* The fetchers on their own: one invocation at a time, for any repository *)
(* and every way its network calls can end.                                *)
(***************************************************************************)
SearchTools == {"search_repository_contents", "searchRepositoryContents"}
PipelineTools == {"fetch_repository_metadata", "fetch_repository_readme",
                  "search_repository_contents", "fetch_repository_structure"}
AgentTools == {"fetchRepositoryMetadata", "fetchRepositoryReadme", "searchRepositoryContents"}

RepoIdentifiers == {DefaultRepoIdentifier, "octo/demo", "acme/lib"}

\* The ways the first GET of a fetcher can end.
OutcomesOf(name) ==
  IF name \in {"fetch_repository_metadata", "fetchRepositoryMetadata"} THEN MetadataOutcomes
  ELSE IF name \in {"fetch_repository_readme", "fetchRepositoryReadme"} THEN ReadmeOutcomes
  ELSE IF name \in SearchTools THEN SearchOutcomes
  ELSE ContentsOutcomes

\* What the fetcher returns or raises when its first GET ends with o.
FetcherReturn(name, repo, o) ==
  IF name = "fetch_repository_metadata" THEN fetchRepositoryMetadata(repo, o)
  ELSE IF name = "fetchRepositoryMetadata" THEN fetchRepositoryMetadataTool(repo, o)
  ELSE IF name = "fetch_repository_readme" THEN fetchRepositoryReadme(repo, o)
  ELSE IF name = "fetchRepositoryReadme" THEN fetchRepositoryReadmeTool(repo, o)
  ELSE IF name = "search_repository_contents" THEN searchRepositoryContents(repo, o)
  ELSE IF name = "searchRepositoryContents" THEN searchRepositoryContentsTool(repo, o)
  ELSE fetchRepositoryStructure(repo, o)

NoReturn == [raised |-> FALSE, value |-> Text("")]
NoToolResult == [name |-> "", content |-> ""]

\* The invocation once it has returned or raised.
Returned(t, calls, ret) ==
  [t EXCEPT !.stage = "returned", !.calls = calls, !.ret = ret,
            !.result = IF t.name \in PipelineTools /\ ~ ret.raised
                         THEN ToolResult(t.name, ret.value) ELSE NoToolResult]

ToolInvoke(name, repo) ==
  /\ tool.stage = "idle"
  /\ tool' = [stage |-> "fetch", name |-> name, repo |-> repo, calls |-> <<>>,
              ret |-> NoReturn, result |-> NoToolResult]
  /\ UNCHANGED <<mastraPromise, promises, req, event, sent, llm, search, fb, agent, ui>>

ToolFetchSettles(o) ==
  /\ tool.stage = "fetch"
  /\ o \in OutcomesOf(tool.name)
  /\ tool' = IF tool.name \in SearchTools /\ SearchNeedsContents(o)
               THEN [tool EXCEPT !.stage = "contents", !.calls = <<o>>]
               ELSE Returned(tool, <<o>>, FetcherReturn(tool.name, tool.repo, o))
  /\ UNCHANGED <<mastraPromise, promises, req, event, sent, llm, search, fb, agent, ui>>

ToolContentsSettles(o) ==
  /\ tool.stage = "contents"
  /\ tool' = Returned(tool, Append(tool.calls, o),
                      IF tool.name = "search_repository_contents"
                        THEN searchRepositoryContentsFallback(tool.repo, o)
                        ELSE searchRepositoryContentsToolFallback(tool.repo, o))
  /\ UNCHANGED <<mastraPromise, promises, req, event, sent, llm, search, fb, agent, ui>>

ToolDone ==
  /\ tool.stage = "returned"
  /\ tool' = NoTool
  /\ UNCHANGED <<mastraPromise, promises, req, event, sent, llm, search, fb, agent, ui>>

NextFetchers ==
  \/ \E name \in PipelineTools \cup AgentTools, repo \in RepoIdentifiers :
       ToolInvoke(name, repo)
  \/ \E o \in MetadataOutcomes \cup ReadmeOutcomes \cup SearchOutcomes \cup ContentsOutcomes :
       ToolFetchSettles(o)
  \/ \E o \in ContentsOutcomes : ToolContentsSettles(o)
  \/ ToolDone

SpecFetchers == Init /\ [][NextFetchers]_vars

(***************************************************************************)
(* generateLLMResponse on its own: formatToolResultsForLLM and             *)
(* simulateLLMCall, for a set of queries and tool results.                 *)
(***************************************************************************)
\* result.content.length > 2000, substring(0, 2000)
MaxContentLength == 2000
\* readmeSection.substring(apiStart, apiStart + 500)
ApiWindow == 500

PromptIntro(query) ==
  "You are an AI assistant that answers questions about GitHub repositories. \n"
    \o "User's question: \"" \o query \o "\"\n\n"
    \o "I've gathered the following information about the GitHub repository:\n\n"

PromptClosing ==
  "Based on the above information, please answer the user's question accurately. \n"
    \o "Focus only on the information provided and what can be directly inferred from it.\n"
    \o "If you don't have enough information, acknowledge that limitation.\n"
    \o "Format your response in a clear, helpful way."

TruncationMark == "... (truncated)"

\* A synthesizer that cuts from 2000 characters on.
EmbeddedContentFromLimit(content) ==
  IF Len(content) >= MaxContentLength
    THEN Substring(content, 0, MaxContentLength) \o TruncationMark
    ELSE content

\* A synthesizer that embeds the content whole.
EmbeddedContentUncut(content) == content

\* The content of a ToolResult as the prompt embeds it.
EmbeddedContent(content) ==
  IF Len(content) > MaxContentLength
    THEN Substring(content, 0, MaxContentLength) \o TruncationMark
    ELSE content

\* A synthesizer that ends a block with a single newline.
PromptBlockNoBlankLine(result) ==
  "--- " \o result.name \o " ---\n" \o EmbeddedContent(result.content) \o "\n"

\* What one iteration of toolResults.forEach appends to the prompt.
PromptBlock(result) ==
  "--- " \o result.name \o " ---\n" \o EmbeddedContent(result.content) \o "\n\n"

RECURSIVE PromptBlocks(_)
PromptBlocks(toolResults) ==
  IF toolResults = <<>> THEN ""
  ELSE PromptBlock(Head(toolResults)) \o PromptBlocks(Tail(toolResults))

formatToolResultsForLLM(query, toolResults) ==
  PromptIntro(query) \o PromptBlocks(toolResults) \o PromptClosing

\* The README part of the prompt as simulateLLMCall locates it.
ReadmeSectionOf(prompt) ==
  IF Includes(prompt, "fetch_repository_readme")
    THEN LET readmeStart == IndexOf(prompt, "fetch_repository_readme", 0)
                              + Len("fetch_repository_readme") + 4
             readmeEnd == IndexOf(prompt, "---", readmeStart)
         IN IF readmeEnd > readmeStart
              THEN Trim(Substring(prompt, readmeStart, readmeEnd))
              ELSE ""
    ELSE ""

\* An extraction that runs to the end of the README section.
SectionFromToEnd(readmeSection, start, from) == SubstringFrom(readmeSection, start)

\* The section that starts at index start: up to the next "##" found from
\* index `from` on, or to the end of the README section.
SectionFrom(readmeSection, start, from) ==
  LET nextSectionStart == IndexOf(readmeSection, "##", from)
  IN IF nextSectionStart > -1
       THEN Substring(readmeSection, start, nextSectionStart)
       ELSE SubstringFrom(readmeSection, start)

\* A chain in which a group that finds nothing falls through to the next.
RelevantContentFallsThrough(query, readmeSection) ==
  LET installationStart == IndexOf(readmeSection, "## Installation", 0)
      installation == IF installationStart > -1
                        THEN SectionFrom(readmeSection, installationStart,
                                         installationStart + 3)
                        ELSE ""
      runStart == IndexOf(readmeSection, "## How to run", 0)
      featuresStart == IndexOf(readmeSection, "## Features", 0)
      apiStart == IndexOf(readmeSection, "API", 0)
      nextSectionStart == IndexOf(readmeSection, "##", apiStart)
      run == IF Includes(query, "run") \/ Includes(query, "install")
                  \/ Includes(query, "setup")
               THEN IF runStart > -1
                      THEN installation \o "\n\n"
                             \o SectionFrom(readmeSection, runStart, runStart + 3)
                      ELSE installation
               ELSE ""
      features == IF (Includes(query, "feature") \/ Includes(query, "what")
                        \/ Includes(query, "capabilities")) /\ featuresStart > -1
                    THEN SectionFrom(readmeSection, featuresStart, featuresStart + 3)
                    ELSE ""
      api == IF (Includes(query, "api") \/ Includes(query, "endpoint")) /\ apiStart > -1
               THEN IF nextSectionStart > -1
                      THEN Substring(readmeSection, apiStart, nextSectionStart)
                      ELSE Substring(readmeSection, apiStart, apiStart + ApiWindow)
               ELSE ""
  IN IF run # "" THEN run ELSE IF features # "" THEN features ELSE api

\* relevantContent: the if / else-if chain over the keywords of the question.
RelevantContent(query, readmeSection) ==
  IF Includes(query, "run") \/ Includes(query, "install") \/ Includes(query, "setup")
    THEN LET installationStart == IndexOf(readmeSection, "## Installation", 0)
             installation == IF installationStart > -1
                               THEN SectionFrom(readmeSection, installationStart,
                                                installationStart + 3)
                               ELSE ""
             runStart == IndexOf(readmeSection, "## How to run", 0)
         IN IF runStart > -1
              THEN installation \o "\n\n" \o SectionFrom(readmeSection, runStart, runStart + 3)
              ELSE installation
  ELSE IF Includes(query, "feature") \/ Includes(query, "what")
            \/ Includes(query, "capabilities")
    THEN LET featuresStart == IndexOf(readmeSection, "## Features", 0)
         IN IF featuresStart > -1
              THEN SectionFrom(readmeSection, featuresStart, featuresStart + 3)
              ELSE ""
  ELSE IF Includes(query, "api") \/ Includes(query, "endpoint")
    THEN LET apiStart == IndexOf(readmeSection, "API", 0)
             nextSectionStart == IndexOf(readmeSection, "##", apiStart)
         IN IF apiStart > -1
              THEN IF nextSectionStart > -1
                     THEN Substring(readmeSection, apiStart, nextSectionStart)
                     ELSE Substring(readmeSection, apiStart, apiStart + ApiWindow)
              ELSE ""
  ELSE ""

\* A generic paragraph that leaves out the star count.
ComposeResponseWithoutStars(repoName, stars, description, relevantContent) ==
  IF relevantContent # ""
    THEN "Based on the GitHub repository " \o repoName
           \o ", I found this information:\n\n" \o relevantContent
           \o "\n\nThis repository has " \o stars
           \o " stars and is described as: \"" \o description \o "\"."
    ELSE "The repository " \o repoName \o " is a " \o description \o "."

\* The response text, were the first template used whatever was found.
ComposeResponseAlwaysFound(repoName, stars, description, relevantContent) ==
  "Based on the GitHub repository " \o repoName
    \o ", I found this information:\n\n" \o relevantContent
    \o "\n\nThis repository has " \o stars
    \o " stars and is described as: \"" \o description \o "\"."

\* The response text of simulateLLMCall.
ComposeResponse(repoName, stars, description, relevantContent) ==
  IF relevantContent # ""
    THEN "Based on the GitHub repository " \o repoName
           \o ", I found this information:\n\n" \o relevantContent
           \o "\n\nThis repository has " \o stars
           \o " stars and is described as: \"" \o description \o "\"."
    ELSE "The repository " \o repoName \o " is a " \o description \o ". It has " \o stars
           \o " stars on GitHub.\n\nFrom analyzing the repository's structure and README, "
           \o "it appears to be a framework for building web applications using the Gin "
           \o "framework in Go. It demonstrates patterns for REST APIs, authentication, "
           \o "and database operations.\n\nFor more specific information, please ask about "
           \o "particular aspects like installation, features, or API endpoints."

\* simulateLLMCall(prompt) once its timer has fired: its locals and the
\* text it returns.
simulateLLMCall(prompt) ==
  LET metadataMatch == MatchQuoted(prompt, "\"full_name\":", TRUE)
      repoName == IF metadataMatch.found THEN metadataMatch.group
                  ELSE "eddycjy/go-gin-example"
      starsMatch == MatchDigits(prompt, "\"stargazers_count\":")
      stars == IF starsMatch.found THEN starsMatch.group ELSE "many"
      descriptionMatch == MatchQuoted(prompt, "\"description\":", TRUE)
      description == IF descriptionMatch.found THEN descriptionMatch.group
                     ELSE "a Go Gin example with useful features"
      questionMatch == MatchQuoted(prompt, "User's question: ", FALSE)
      query == IF questionMatch.found THEN ToLowerCase(questionMatch.group) ELSE ""
      readmeSection == ReadmeSectionOf(prompt)
      relevantContent == RelevantContent(query, readmeSection)
  IN [repoName |-> repoName, stars |-> stars, description |-> description,
      query |-> query, readmeSection |-> readmeSection,
      relevantContent |-> relevantContent,
      response |-> ComposeResponse(repoName, stars, description, relevantContent)]

\* The questions asked.
Queries ==
  { Question,
    "how to install",
    "What features are there?",
    "What API endpoints are available?",
    "Which API endpoints exist?",
    "Tell me about licensing",
    "How do I install the features",
    "what does fetch_repository_readme do" }

\* content of the metadata ToolResult: JSON.stringify of the repository
\* object, also as the documentation writes it; the last is longer than
\* 2000 characters and has its star count beyond them.
MetadataContents ==
  { "{\"full_name\":\"octo/demo\",\"description\":\"a demo repo\",\"stargazers_count\":42}",
    "{\"full_name\": \"octo/demo\", \"stargazers_count\": 42, \"description\": \"a demo repo\"}",
    "{\"id\":1,\"full_name\":\"acme/lib\",\"description\":null,\"fork\":false}",
    "{\"full_name\":\"octo/demo\",\"description\":\"test repo\",\"homepage\":\""
       \o Repeat("u", 2000) \o "\",\"stargazers_count\":10}" }

\* content of the README ToolResult.
ReadmeContents ==
  { "## Installation\nRun npm install\n## Usage\nnpm start\n",
    "# Demo\n## Features\n- fast\n## Installation\nmake\n## How to run\n./demo\n",
    "## How to run\ngo run main.go",
    "Intro\n## API\nGET /ping",
    "The API is REST.\n## Endpoints\n/x",
    "README content not available",
    "## Features\n| a | b |\n|---|---|\n| 1 | 2 |\n## Installation\npip install x\n",
    "## Installation\n### Linux\napt install demo\n## Usage\ndemo\n",
    "## Installation\n" \o Repeat("x", 2001),
    "API " \o Repeat("y", 600),
    Repeat("z", 2000) }

SearchContents == { "[]", "[{\"name\":\"api.go\",\"path\":\"src/api.go\"}]" }
StructureContents == { "[{\"name\":\"README.md\",\"type\":\"file\"}]" }

\* The list executeGitHubTools returns.
ToolResultsOf(metadata, readme, searchResults, structure) ==
  << [name |-> "fetch_repository_metadata", content |-> metadata],
     [name |-> "fetch_repository_readme", content |-> readme],
     [name |-> "search_repository_contents", content |-> searchResults],
     [name |-> "fetch_repository_structure", content |-> structure] >>

NoLocals == [repoName |-> "", stars |-> "", description |-> "", query |-> "",
             readmeSection |-> "", relevantContent |-> "", response |-> ""]

\* generateLLMResponse(query, toolResults) up to the timer of simulateLLMCall.
generateLLMResponse(query, toolResults) ==
  /\ llm.stage = "idle"
  /\ llm' = [stage |-> "simulateLLMCall", query |-> query, toolResults |-> toolResults,
             prompt |-> formatToolResultsForLLM(query, toolResults),
             locals |-> NoLocals]
  /\ UNCHANGED <<mastraPromise, promises, req, event, sent, tool, search, fb, agent, ui>>

\* The timer fires: the text is derived from the prompt and returned.
SimulateLLMCallReturns ==
  /\ llm.stage = "simulateLLMCall"
  /\ llm' = [llm EXCEPT !.stage = "returned", !.locals = simulateLLMCall(llm.prompt)]
  /\ UNCHANGED <<mastraPromise, promises, req, event, sent, tool, search, fb, agent, ui>>

\* The caller takes the text.
GenerateDone ==
  /\ llm.stage = "returned"
  /\ llm' = NoLLM
  /\ UNCHANGED <<mastraPromise, promises, req, event, sent, tool, search, fb, agent, ui>>

NextGenerate ==
  \/ /\ llm.stage = "idle"
     /\ \E query \in Queries, metadata \in MetadataContents, readme \in ReadmeContents,
           searchResults \in SearchContents, structure \in StructureContents :
          generateLLMResponse(query, ToolResultsOf(metadata, readme, searchResults, structure))
  \/ SimulateLLMCallReturns
  \/ GenerateDone

SpecGenerate == Init /\ [][NextGenerate]_vars

(***************************************************************************)
(* The deterministic pipeline with the contents of what it fetches:        *)
(* fallbackProcessing calls followed one after the other, from the call    *)
(* POST makes to the response.  Between two calls only the cached handle's *)
(* runtimeContext persists.                                                *)
(***************************************************************************)
\* The requests that reach fallbackProcessing (query is a non-empty string).
FallbackBodies ==
  { [query |-> Str(Question), owner |-> Str("octo"), repo |-> Str("demo")],
    [query |-> Str(Question), owner |-> Str("acme"), repo |-> Str("lib")],
    [query |-> Str(Question), owner |-> Undefined, repo |-> Undefined] }

\* How the GETs of the pipeline end in the runs followed.
FallbackMetadataOutcomes == {"json", "json:stars", "nonok"}
FallbackReadmeOutcomes == {"content:usage", "content:table", "content:long", "neterr"}
FallbackSearchOutcomes == {"items", "nonok", "neterr"}
FallbackStructureOutcomes == {"list", "neterr"}

\* The request whose first response is kept for comparison with the
\* responses to its later repetitions.
ReplayedRequest ==
  [body |-> [query |-> Str(Question), owner |-> Undefined, repo |-> Undefined],
   outcomes |-> <<"json", "content:usage", "items", "list">>]

\* A pipeline that names the repository after the cached runtimeContext, as
\* the agent's tools do.
FallbackRepoIdentifierFromContext(body, context) == context.owner \o "/" \o context.name

\* const repoIdentifier = owner && repo ? `${owner}/${repo}` : default
FallbackRepoIdentifier(body, context) == RepoIdentifierOf(body.owner, body.repo)

\* POST calls fallbackProcessing(query, owner, repo): after the agent flow
\* has set the context of the cached handle (viaAgent), or from the catch
\* of a failed getMastraComponents.
FallbackInvoked(body, viaAgent) ==
  /\ fb.stage \in {"idle", "answered"}
  /\ LET context == IF viaAgent THEN SetContext(fb.context, body) ELSE fb.context
     IN fb' = [stage |-> "executeGitHubTools", body |-> body,
               repoIdentifier |-> FallbackRepoIdentifier(body, context),
               inflight |-> "fetch_repository_metadata",
               outcomes |-> <<>>, results |-> <<>>,
               response |-> Json(0, "", <<>>),
               context |-> context, replay |-> fb.replay]
  /\ UNCHANGED <<mastraPromise, promises, req, event, sent, tool, llm, search, agent, ui>>

\* The response is sent; the first response to ReplayedRequest is kept, and
\* so is whether another request was answered after it.
FallbackAnswered(f, outcomes, resp) ==
  LET key == [body |-> f.body, outcomes |-> outcomes]
  IN [f EXCEPT
        !.stage = "answered", !.inflight = "", !.outcomes = outcomes,
        !.response = resp,
        !.replay =
          IF ~ @.recorded
            THEN IF key = ReplayedRequest
                   THEN [recorded |-> TRUE, response |-> resp, between |-> FALSE]
                   ELSE @
          ELSE IF key = ReplayedRequest THEN @
          ELSE [@ EXCEPT !.between = TRUE]]

\* executeGitHubTools after a fetcher returned or raised (ret): push the
\* ToolResult and issue the next fetch, or rethrow into the catch of
\* fallbackProcessing.
FallbackToolSettled(f, name, o, ret, next) ==
  IF ret.raised
    THEN FallbackAnswered(f, Append(f.outcomes, o),
           Json(500, "error", <<"Failed to process request in fallback mode">>))
    ELSE [f EXCEPT
            !.results = Append(@, ToolResult(name, ret.value)),
            !.outcomes = Append(@, o),
            !.inflight = next,
            !.stage = IF next = "" THEN "generateLLMResponse" ELSE @]

FallbackMetadataSettles(o) ==
  /\ fb.stage = "executeGitHubTools"
  /\ fb.inflight = "fetch_repository_metadata"
  /\ fb' = FallbackToolSettled(fb, "fetch_repository_metadata", o,
             fetchRepositoryMetadata(fb.repoIdentifier, o), "fetch_repository_readme")
  /\ UNCHANGED <<mastraPromise, promises, req, event, sent, tool, llm, search, agent, ui>>

FallbackReadmeSettles(o) ==
  /\ fb.stage = "executeGitHubTools"
  /\ fb.inflight = "fetch_repository_readme"
  /\ fb' = FallbackToolSettled(fb, "fetch_repository_readme", o,
             fetchRepositoryReadme(fb.repoIdentifier, o), "search_repository_contents")
  /\ UNCHANGED <<mastraPromise, promises, req, event, sent, tool, llm, search, agent, ui>>

FallbackSearchSettles(o) ==
  /\ fb.stage = "executeGitHubTools"
  /\ fb.inflight = "search_repository_contents"
  /\ fb' = IF SearchNeedsContents(o)
             THEN [fb EXCEPT !.inflight = "search_repository_contents:contents"]
             ELSE FallbackToolSettled(fb, "search_repository_contents", o,
                    searchRepositoryContents(fb.repoIdentifier, o),
                    "fetch_repository_structure")
  /\ UNCHANGED <<mastraPromise, promises, req, event, sent, tool, llm, search, agent, ui>>

FallbackSearchContentsSettles(o) ==
  /\ fb.stage = "executeGitHubTools"
  /\ fb.inflight = "search_repository_contents:contents"
  /\ fb' = FallbackToolSettled(fb, "search_repository_contents", "nonok:" \o o,
             searchRepositoryContentsFallback(fb.repoIdentifier, o),
             "fetch_repository_structure")
  /\ UNCHANGED <<mastraPromise, promises, req, event, sent, tool, llm, search, agent, ui>>

FallbackStructureSettles(o) ==
  /\ fb.stage = "executeGitHubTools"
  /\ fb.inflight = "fetch_repository_structure"
  /\ fb' = FallbackToolSettled(fb, "fetch_repository_structure", o,
             fetchRepositoryStructure(fb.repoIdentifier, o), "")
  /\ UNCHANGED <<mastraPromise, promises, req, event, sent, tool, llm, search, agent, ui>>

\* generateLLMResponse(query, toolResults) returns the text simulateLLMCall
\* derives from the prompt, and fallbackProcessing answers 200 with it.
FallbackGenerates ==
  /\ fb.stage = "generateLLMResponse"
  /\ LET prompt == formatToolResultsForLLM(fb.body.query.v, fb.results)
         text == simulateLLMCall(prompt).response
     IN fb' = FallbackAnswered(fb, fb.outcomes, Json(200, "response", <<text>>))
  /\ UNCHANGED <<mastraPromise, promises, req, event, sent, tool, llm, search, agent, ui>>

NextFallback ==
  \/ \E body \in FallbackBodies, viaAgent \in BOOLEAN : FallbackInvoked(body, viaAgent)
  \/ \E o \in FallbackMetadataOutcomes : FallbackMetadataSettles(o)
  \/ \E o \in FallbackReadmeOutcomes : FallbackReadmeSettles(o)
  \/ \E o \in FallbackSearchOutcomes : FallbackSearchSettles(o)
  \/ FallbackSearchContentsSettles("list")
  \/ \E o \in FallbackStructureOutcomes : FallbackStructureSettles(o)
  \/ FallbackGenerates

SpecFallback == Init /\ [][NextFallback]_vars

(***************************************************************************)
(* Agent construction: createGitHubAgent and getOllamaModel.               *)
(***************************************************************************)
PREFERRED_MODEL == "llama3.1-resume:custom"
FALLBACK_MODEL == "llama3"

\* The tools defined in the module itself.
BuiltInTools ==
  {"fetchRepositoryMetadata", "fetchRepositoryReadme", "searchRepositoryContents",
   "fetchFileContent"}

\* Names of tools the git-mcp server may offer; one collides with a
\* built-in tool.
McpToolNames == {"fetch_documentation", "search_documentation", "search_code",
                 "fetchRepositoryReadme"}

\* How mcp.getTools() ends: it rejects, or resolves to a set of tools.
GetToolsOutcomes ==
  {[kind |-> "throws", tools |-> {}]}
    \cup {[kind |-> "tools", tools |-> t] : t \in SUBSET McpToolNames}

\* How GET /api/tags ends: the fetch rejects, the status is not ok, the
\* body is not JSON or not an object, the object has no models member, or
\* it lists models.
OllamaModelNames == {"llama3.1-resume:custom", "llama3", "mistral"}
ModelListingOutcomes ==
  {[kind |-> k, models |-> {}] : k \in {"neterr", "nonok", "badjson", "null", "nomodels"}}
    \cup {[kind |-> "models", models |-> m] : m \in SUBSET OllamaModelNames}

\* A getOllamaModel that trusts only a listing it could read.
getOllamaModelStrict(modelName, o) ==
  IF o.kind \in {"models", "nomodels"} /\ modelName \in o.models THEN modelName
  ELSE FALLBACK_MODEL

\* getOllamaModel(modelName): data.models || [] is searched for the name;
\* a status that is not ok and the catch block both return the name asked.
getOllamaModel(modelName, o) ==
  IF o.kind \in {"neterr", "nonok", "badjson", "null"} THEN modelName
  ELSE IF modelName \in o.models THEN modelName
  ELSE FALLBACK_MODEL

\* new Agent({name, model, tools}); a source names where a tool comes from,
\* the spread of mcpTools coming last.
NewAgent(name, model, mcpTools) ==
  [raised |-> FALSE, name |-> name, model |-> model,
   tools |-> [n \in BuiltInTools \cup mcpTools |->
                IF n \in mcpTools THEN "mcp" ELSE "builtin"]]

\* The agent of the catch block.
FallbackAgent == NewAgent("GitHubAgent (Fallback)", FALLBACK_MODEL, {})

\* createGitHubAgent() is called: mcp.getTools() is awaited.
createGitHubAgent ==
  /\ agent.stage = "idle"
  /\ agent' = [stage |-> "mcp.getTools"]
  /\ UNCHANGED <<mastraPromise, promises, req, event, sent, tool, llm, search, fb, ui>>

\* mcp.getTools() settles: getOllamaModel is awaited, or the catch block
\* builds the fallback agent.
GetToolsSettles(o) ==
  /\ agent.stage = "mcp.getTools"
  /\ agent' = IF o.kind = "throws"
                THEN [stage |-> "returned", getTools |-> o, result |-> FallbackAgent]
                ELSE [stage |-> "getOllamaModel", getTools |-> o]
  /\ UNCHANGED <<mastraPromise, promises, req, event, sent, tool, llm, search, fb, ui>>

\* The model listing settles and the agent is built.
ModelListingSettles(o) ==
  /\ agent.stage = "getOllamaModel"
  /\ agent' = [stage |-> "returned", getTools |-> agent.getTools, listing |-> o,
               result |-> NewAgent("GitHubAgent", getOllamaModel(PREFERRED_MODEL, o),
                                   agent.getTools.tools)]
  /\ UNCHANGED <<mastraPromise, promises, req, event, sent, tool, llm, search, fb, ui>>

\* The caller takes the agent.
AgentTaken ==
  /\ agent.stage = "returned"
  /\ agent' = NoAgent
  /\ UNCHANGED <<mastraPromise, promises, req, event, sent, tool, llm, search, fb, ui>>

NextAgent ==
  \/ createGitHubAgent
  \/ \E o \in GetToolsOutcomes : GetToolsSettles(o)
  \/ \E o \in ModelListingOutcomes : ModelListingSettles(o)
  \/ AgentTaken

SpecAgent == Init /\ [][NextAgent]_vars

(***************************************************************************)
(* searchRepositoryContents: the search string derived from the query, in  *)
(* the pipeline fetcher and in the agent tool.                             *)
(***************************************************************************)
\* .filter((term) => term.length > 3)
SubstantiveLength == 3
\* .slice(0, 3)
MaxSearchTerms == 3

\* \w of the regular expression /[^\w\s]/g
IsWordChar(c) ==
  c \in Digits \/ c = "_" \/ Includes(LowerCase, c) \/ Includes(UpperCase, c)

RECURSIVE StripPunctuation(_)
\* s.replace(/[^\w\s]/g, "")
StripPunctuation(s) ==
  IF Len(s) = 0 THEN ""
  ELSE IF Len(s) = 1 THEN (IF IsWordChar(s) \/ s \in WhiteSpace THEN s ELSE "")
  ELSE LET h == Len(s) \div 2
       IN StripPunctuation(SubSeq(s, 1, h)) \o StripPunctuation(SubSeq(s, h + 1, Len(s)))

RECURSIVE SplitOnWhiteSpace(_)
\* s.split(/\s+/)
SplitOnWhiteSpace(s) ==
  IF \A i \in 0..(Len(s) - 1) : CharAt(s, i) \notin WhiteSpace THEN <<s>>
  ELSE LET i == CHOOSE i \in 0..(Len(s) - 1) :
                  /\ CharAt(s, i) \in WhiteSpace
                  /\ \A j \in 0..(i - 1) : CharAt(s, j) \notin WhiteSpace
       IN <<Substring(s, 0, i)>>
            \o SplitOnWhiteSpace(SubstringFrom(s, RunEnd(s, i, WhiteSpace)))

\* A filter that keeps the terms of three characters too.
IsSubstantiveFromLimit(term) == Len(term) >= SubstantiveLength

\* term.length > 3
IsSubstantive(term) == Len(term) > SubstantiveLength

\* terms.slice(0, n)
Slice(terms, n) == SubSeq(terms, 1, IF Len(terms) < n THEN Len(terms) ELSE n)

RECURSIVE Join(_, _)
\* terms.join(sep)
Join(terms, sep) ==
  IF terms = <<>> THEN ""
  ELSE IF Len(terms) = 1 THEN terms[1]
  ELSE terms[1] \o sep \o Join(Tail(terms), sep)

\* searchTerms of either implementation.
SearchTermsOf(query) ==
  Slice(SelectSeq(SplitOnWhiteSpace(StripPunctuation(ToLowerCase(query))), IsSubstantive),
        MaxSearchTerms)

\* searchQuery of the pipeline fetcher.
searchQueryOfPipeline(query) ==
  LET searchTerms == SearchTermsOf(query)
  IN IF Len(searchTerms) > 0 THEN Join(searchTerms, "+") ELSE "api+endpoint+feature"

\* searchQuery of the agent tool searchRepositoryContents.
searchQueryOfTool(query) ==
  LET searchTerms == SearchTermsOf(query)
  IN IF Len(searchTerms) > 0 THEN Join(searchTerms, "+") ELSE "api+endpoint+feature"

\* Queries of at most MaxQueryWords words.
MaxQueryWords == 4
QueryWords == {"", "do", "Work", "What's", "API?\tstars"}
WordLists == UNION {[1..n -> QueryWords] : n \in 0..MaxQueryWords}
SearchedQueries ==
  {Join(words, " ") : words \in WordLists} \cup {"how do stars work", Question}

\* The fetcher is called with a query and derives searchQuery; the
\* pipeline is only reached with a query that passed the validation of POST.
DeriveSearchQuery(name, query) ==
  /\ search.stage = "idle"
  /\ name = "search_repository_contents" => IsValidQuery(Str(query))
  /\ search' = [stage |-> "derived", name |-> name, query |-> query,
                searchQuery |-> IF name = "search_repository_contents"
                                  THEN searchQueryOfPipeline(query)
                                  ELSE searchQueryOfTool(query)]
  /\ UNCHANGED <<mastraPromise, promises, req, event, sent, tool, llm, fb, agent, ui>>

\* The search URL is requested with the derived string.
SearchIssued ==
  /\ search.stage = "derived"
  /\ search' = NoSearch
  /\ UNCHANGED <<mastraPromise, promises, req, event, sent, tool, llm, fb, agent, ui>>

NextSearchTerms ==
  \/ /\ search.stage = "idle"
     /\ \E name \in SearchTools, query \in SearchedQueries : DeriveSearchQuery(name, query)
  \/ SearchIssued

SpecSearchTerms == Init /\ [][NextSearchTerms]_vars

(***************************************************************************)
(* The page: recent repositories and the GitHub URL form.                  *)
(***************************************************************************)
MaxRecentRepos == 5

RecentReposKey == "gitmcp-recent-repos"
InvalidUrlMessage ==
  "Please enter a valid GitHub repository URL (e.g., https://github.com/username/repository)"
DefaultRecentRepos == <<[owner |-> "eddycjy", repo |-> "go-gin-example"]>>

\* What the user may type into the URL field.
GithubUrls ==
  {"https://github.com/octo/demo", "https://github.com/octo/lib",
   "https://github.com/acme/demo", "https://GitHub.com/acme/lib/",
   "https://github.com/acme/api/tree/main?tab=readme",
   "https://github.com/eddycjy/go-gin-example",
   "https://github.com/acme", "https://gitlab.com/octo/demo", "github.com/octo/demo"}

\* The first index at or after from of a character that ends the part of
\* a URL, or the length of the text.
EndOfPart(text, from, enders) ==
  IF \E i \in from..(Len(text) - 1) : CharAt(text, i) \in enders
    THEN CHOOSE i \in from..(Len(text) - 1) :
           /\ CharAt(text, i) \in enders
           /\ \A j \in from..(i - 1) : CharAt(text, j) \notin enders
    ELSE Len(text)

\* new URL(text) for http and https: it throws without a scheme or a host;
\* the hostname is lower-cased, the pathname ends before ? or #.
NewURL(text) ==
  LET scheme == IF OccursAt(text, "https://", 0) THEN 8
                ELSE IF OccursAt(text, "http://", 0) THEN 7 ELSE 0
      hostEnd == EndOfPart(text, scheme, {"/", "?", "#"})
      pathEnd == EndOfPart(text, hostEnd, {"?", "#"})
  IN IF scheme = 0 \/ hostEnd = scheme
       THEN [throws |-> TRUE, hostname |-> "", pathname |-> ""]
       ELSE [throws |-> FALSE,
             hostname |-> ToLowerCase(Substring(text, scheme, hostEnd)),
             pathname |-> IF pathEnd = hostEnd THEN "/"
                          ELSE Substring(text, hostEnd, pathEnd)]

RECURSIVE PathParts(_)
\* pathname.split("/").filter(Boolean)
PathParts(pathname) ==
  LET slash == EndOfPart(pathname, 0, {"/"})
      rest  == IF slash = Len(pathname) THEN <<>>
               ELSE PathParts(SubstringFrom(pathname, slash + 1))
  IN IF slash = 0 THEN rest ELSE <<Substring(pathname, 0, slash)>> \o rest

RECURSIVE StringifyRepos(_)
\* The members of JSON.stringify(repos), without the brackets.
StringifyRepos(repos) ==
  IF repos = <<>> THEN ""
  ELSE "{\"owner\":\"" \o repos[1].owner \o "\",\"repo\":\"" \o repos[1].repo \o "\"}"
         \o (IF Len(repos) = 1 THEN "" ELSE ",")
         \o StringifyRepos(Tail(repos))

RECURSIVE ParseRepos(_, _)
\* JSON.parse of a saved list, read from index from.
ParseRepos(text, from) ==
  LET o == IndexOf(text, "{\"owner\":\"", from)
  IN IF o = -1 THEN <<>>
     ELSE LET ownerEnd == IndexOf(text, "\",\"repo\":\"", o + 10)
              repoEnd  == IndexOf(text, "\"}", ownerEnd + 10)
          IN <<[owner |-> Substring(text, o + 10, ownerEnd),
                repo  |-> Substring(text, ownerEnd + 10, repoEnd)]>>
               \o ParseRepos(text, repoEnd + 2)

\* recentRepos.some((r) => r.owner === owner && r.repo === repo)
RepoExists(recentRepos, owner, repo) ==
  \E i \in 1..Len(recentRepos) :
    recentRepos[i].owner = owner /\ recentRepos[i].repo = repo

\* An updateRecentRepos that keeps every repository it was given.
updateRecentReposUncapped(u, owner, repo) ==
  LET IsOther(r) == ~ (r.owner = owner /\ r.repo = repo)
      newRecentRepos == <<[owner |-> owner, repo |-> repo]>>
                          \o SelectSeq(u.recentRepos, IsOther)
  IN [u EXCEPT !.recentRepos = newRecentRepos,
               !.localStorage = [k \in DOMAIN u.localStorage \cup {RecentReposKey} |->
                  IF k = RecentReposKey THEN "[" \o StringifyRepos(newRecentRepos) \o "]"
                  ELSE u.localStorage[k]]]

\* updateRecentRepos(owner, repo): a new repository is put in front and the
\* list cut to five; a known one is moved to the front; either list is
\* saved.
updateRecentRepos(u, owner, repo) ==
  LET IsOther(r) == ~ (r.owner = owner /\ r.repo = repo)
      entry == <<[owner |-> owner, repo |-> repo]>>
      saved == IF ~ RepoExists(u.recentRepos, owner, repo)
                 THEN Slice(entry \o u.recentRepos, MaxRecentRepos)
                 ELSE entry \o SelectSeq(u.recentRepos, IsOther)
  IN [u EXCEPT !.recentRepos = saved,
               !.localStorage = [k \in DOMAIN u.localStorage \cup {RecentReposKey} |->
                  IF k = RecentReposKey THEN "[" \o StringifyRepos(saved) \o "]"
                  ELSE u.localStorage[k]]]

\* The effect that runs once after the first render: the saved list if
\* there is one, else the default list.
LoadRecentRepos ==
  /\ ~ ui.mounted
  /\ ui' = [ui EXCEPT
       !.mounted = TRUE,
       !.recentRepos =
          IF RecentReposKey \in DOMAIN ui.localStorage /\ ui.localStorage[RecentReposKey] # ""
            THEN ParseRepos(ui.localStorage[RecentReposKey], 0)
            ELSE DefaultRecentRepos]
  /\ UNCHANGED <<mastraPromise, promises, req, event, sent, tool, llm, search, fb, agent>>

\* new URL(githubUrl) and its pathParts, for each text that may be typed.
TypedUrl ==
  [text \in GithubUrls |->
     [url |-> NewURL(text), pathParts |-> PathParts(NewURL(text).pathname)]]

\* handleGithubUrlSubmit with text in the URL field.
handleGithubUrlSubmit(text) ==
  /\ ui.mounted
  /\ LET url == TypedUrl[text].url
         pathParts == TypedUrl[text].pathParts
         typed == [ui EXCEPT !.githubUrl = text]
     IN ui' =
          IF url.throws \/ ~ Includes(url.hostname, "github.com") \/ Len(pathParts) < 2
            THEN [typed EXCEPT !.error = InvalidUrlMessage, !.submit = "rejected"]
            ELSE [updateRecentRepos(typed, pathParts[1], pathParts[2]) EXCEPT
                    !.repoOwner = pathParts[1],
                    !.repoName = pathParts[2],
                    !.githubUrl = "",
                    !.error = "",
                    !.response = "Repository changed to " \o pathParts[1] \o "/" \o pathParts[2]
                                   \o ". Ask a question about this repository!",
                    !.loaded = <<[owner |-> pathParts[1], repo |-> pathParts[2]]>>,
                    !.submit = "accepted"]
  /\ UNCHANGED <<mastraPromise, promises, req, event, sent, tool, llm, search, fb, agent>>

\* switchToRepo(owner, repo), from a button of the recent list.
switchToRepo(i) ==
  /\ ui.mounted
  /\ i \in 1..Len(ui.recentRepos)
  /\ ui' = [ui EXCEPT
       !.repoOwner = ui.recentRepos[i].owner,
       !.repoName = ui.recentRepos[i].repo,
       !.response = "Repository changed to " \o ui.recentRepos[i].owner \o "/"
                      \o ui.recentRepos[i].repo \o ". Ask a question about this repository!"]
  /\ UNCHANGED <<mastraPromise, promises, req, event, sent, tool, llm, search, fb, agent>>

\* The page is loaded again: the state is new, the storage is kept.
PageReloads ==
  /\ ui.mounted
  /\ ui' = [InitialUI EXCEPT !.localStorage = ui.localStorage]
  /\ UNCHANGED <<mastraPromise, promises, req, event, sent, tool, llm, search, fb, agent>>

NextUI ==
  \/ LoadRecentRepos
  \/ \E text \in GithubUrls : handleGithubUrlSubmit(text)
  \/ \E i \in 1..MaxRecentRepos : switchToRepo(i)
  \/ PageReloads

SpecUI == Init /\ [][NextUI]_vars

(***************************************************************************)
(* Properties of the request handler.                                      *)
(***************************************************************************)
PipelinePcs == {"executeGitHubTools", "simulateLLMCall"}

\* A body's query is missing, empty or not a string.
QueryMissingEmptyOrNotString(q) == q.t # "string" \/ q.v = ""

\* The last step was the arrival, in slot r, of a parsed body.
Arrived(r) == event.type = "request" /\ event.req = r /\ event.parsed

\* The repository a body names: owner/repo when both are given.
RepositoryNamedBy(b) ==
  IF b.owner.t = "string" /\ b.owner.v # "" /\ b.repo.t = "string" /\ b.repo.v # ""
    THEN b.owner.v \o "/" \o b.repo.v
    ELSE "eddycjy/go-gin-example"

\* C1: a request whose query is missing, empty or not a string is answered
\* at once with status 400 and an {error} body; the step starts no agent
\* construction, probe, fetch or pipeline and leaves mastraPromise (and the
\* promise it names) unchanged.
C1_InvalidQueryRejected ==
  [][\A r \in Req :
       (Arrived(r)' /\ QueryMissingEmptyOrNotString(event'.body.query))
         => /\ sent'.req = r /\ sent'.status = 400 /\ sent'.key = "error"
            /\ req' = req
            /\ req'[r].inflight = {}
            /\ mastraPromise' = mastraPromise
            /\ promises' = promises]_vars

\* An invalid request was rejected while a construction was cached.
C1_Witness ==
  \E r \in Req :
    /\ Arrived(r) /\ QueryMissingEmptyOrNotString(event.body.query)
    /\ sent.status = 400
    /\ mastraPromise # 0

\* The last step saw the probe or the completion call of request r fail.
PrimaryCallFailed(r) ==
  /\ event.type = "settled" /\ event.req = r
  /\ event.call \in {"probe", "generate"} /\ event.outcome # "ok"

\* In the slots rq, request r has just entered
\* fallbackProcessing(query, owner, repo) with the fields of body b.
FallbackStarted(rq, r, b) ==
  /\ rq[r].pc = "executeGitHubTools"
  /\ rq[r].body = b
  /\ rq[r].repoIdentifier = RepositoryNamedBy(b)
  /\ rq[r].inflight = {"fetch_repository_metadata"}
  /\ rq[r].results = <<>>

\* C2: for a valid query, a failed construction, a failed or non-ok probe
\* and a throwing generate are not answered directly: the request enters
\* fallbackProcessing(query, owner, repo), and the answer of a request in
\* the pipeline is the pipeline's own (200 {response} once all four
\* fetchers returned, else its 500).
C2_PrimaryFailureFallsBack ==
  [][\A r \in Req :
       /\ PrimaryCallFailed(r)' => (FallbackStarted(req', r, req[r].body) /\ sent'.req # r)
       /\ (req[r].pc = "getMastraComponents" /\ req'[r] # req[r]
             /\ promises'[req[r].awaited].state # "fulfilled")
            => (FallbackStarted(req', r, req[r].body) /\ sent'.req # r)
       /\ (req[r].pc \in PipelinePcs /\ req'[r].pc \notin PipelinePcs)
            => /\ req'[r] = Idle /\ sent'.req = r
               /\ IF req[r].pc = "simulateLLMCall"
                    THEN sent'.status = 200 /\ sent'.key = "response"
                    ELSE sent'.status = 500 /\ sent'.key = "error"
                         /\ sent'.value = <<"Failed to process request in fallback mode">>
       /\ (req[r].pc = "simulateLLMCall" /\ req'[r] # req[r])
            => sent'.status = 200 /\ sent'.key = "response"]_vars

\* generate threw and the request is in the pipeline.
C2_Witness ==
  \E r \in Req :
    /\ PrimaryCallFailed(r) /\ event.call = "generate"
    /\ FallbackStarted(req, r, req[r].body)

\* C3: generate is called only in the step in which the request's own
\* probe answered ok; a probe that failed or was not ok puts the request
\* into the pipeline, from which generate is never called.
C3_GenerateOnlyAfterProbe ==
  [][\A r \in Req :
       /\ ("generate" \in req'[r].inflight /\ "generate" \notin req[r].inflight)
            => /\ req[r].pc = "probe"
               /\ event'.type = "settled" /\ event'.req = r
               /\ event'.call = "probe" /\ event'.outcome = "ok"
       /\ (event'.type = "settled" /\ event'.req = r /\ event'.call = "probe"
             /\ event'.outcome # "ok")
            => req'[r].pc = "executeGitHubTools" /\ "generate" \notin req'[r].inflight
       /\ req[r].pc \in PipelinePcs
            => req'[r].pc # "generate" /\ "generate" \notin req'[r].inflight]_vars

\* generate has been called after the probe answered ok.
C3_Witness ==
  \E r \in Req :
    /\ event.type = "settled" /\ event.req = r /\ event.call = "probe"
    /\ event.outcome = "ok"
    /\ req[r].pc = "generate" /\ "generate" \in req[r].inflight

Pending == {p \in PromiseIds : promises[p].state = "pending"}
Fulfilled == {p \in PromiseIds : promises[p].state = "fulfilled"}

\* C4: at most one initializeMastra is running at any time; once a
\* construction has succeeded its handle stays cached, no construction is
\* started again, and every request in the agent flow holds that handle.
C4_ConstructedOnce ==
  /\ [](/\ Cardinality(Pending) <= 1
        /\ \A p \in Fulfilled : mastraPromise = p /\ Pending = {}
        /\ \A r \in Req : req[r].pc \in {"probe", "generate"}
                            => req[r].awaited = mastraPromise /\ mastraPromise \in Fulfilled)
  /\ [][\A p \in Fulfilled : p \in Fulfilled' /\ Pending' = {}]_vars

\* Two concurrent requests are in the agent flow on the one handle.
C4_Witness ==
  \E r1, r2 \in Req :
    /\ r1 # r2
    /\ req[r1].pc \in {"probe", "generate"} /\ req[r2].pc \in {"probe", "generate"}
    /\ req[r1].awaited = req[r2].awaited
    /\ mastraPromise \in Fulfilled

\* C5: a failed construction is never left cached: the step in which it
\* fails empties the cache and sends every request that awaited it into
\* the fallback; a valid request that finds the cache empty starts a fresh
\* construction.
C5_FailedConstructionNotCached ==
  /\ [](/\ \A p \in PromiseIds : promises[p].state # "rejected"
        /\ mastraPromise # 0 => mastraPromise \in Pending \cup Fulfilled)
  /\ [][/\ \A p \in Pending : p \notin (Pending' \cup Fulfilled')
             => /\ mastraPromise' = 0
                /\ \A i \in DOMAIN promises[p].reactions :
                     FallbackStarted(req', promises[p].reactions[i],
                                     req[promises[p].reactions[i]].body)
        /\ \A r \in Req :
             (Arrived(r)' /\ ~ QueryMissingEmptyOrNotString(event'.body.query)
                /\ mastraPromise = 0)
               => /\ mastraPromise' \in Pending' /\ mastraPromise' \notin Pending
                  /\ req'[r].awaited = mastraPromise'
                  /\ req'[r].pc = "getMastraComponents"]_vars

\* After a failed construction sent a request into the fallback, a later
\* request has started a fresh construction.
C5_Witness ==
  \E r1, r2 \in Req :
    /\ req[r1].pc = "executeGitHubTools"
    /\ req[r2].pc = "getMastraComponents"
    /\ req[r2].awaited = mastraPromise
    /\ mastraPromise \in Pending

\* The last step showed the runtime context of request r's agent flow:
\* generate was called with it, or the agent read it while generating.
AgentFlowContext(r) ==
  /\ \/ event.type = "agentTool"
     \/ event.type = "settled" /\ event.call = "probe" /\ event.outcome = "ok"
  /\ event.req = r

BothGiven(b) == b.owner.t = "string" /\ b.owner.v # "" /\ b.repo.t = "string" /\ b.repo.v # ""

\* C6 (as claimed): the runtime context of a request's agent flow names the
\* owner/repo that request supplied, whatever other requests run meanwhile.
C6_ContextIsRequestLocal ==
  \A r \in Req :
    (AgentFlowContext(r) /\ BothGiven(req[r].body))
      => event.runtimeContext = [owner |-> req[r].body.owner.v,
                                 name |-> req[r].body.repo.v]

\* C7 (as claimed): a request that does not supply both owner and repo is
\* processed against eddycjy/go-gin-example, in the agent flow and in the
\* pipeline.
C7_DefaultRepositoryWithoutOwnerRepo ==
  \A r \in Req :
    ~ BothGiven(req[r].body)
      => /\ AgentFlowContext(r)
              => event.runtimeContext = [owner |-> "eddycjy", name |-> "go-gin-example"]
         /\ req[r].pc \in PipelinePcs
              => req[r].repoIdentifier = "eddycjy/go-gin-example"

\* The order the orchestrator is to follow.
ToolOrder == <<"fetch_repository_metadata", "fetch_repository_readme",
               "search_repository_contents", "fetch_repository_structure">>

FetchersInFlight(r) ==
  {c \in req[r].inflight : c \notin {"probe", "generate", "timer"}}

\* C10: at most one fetcher of a request is in flight; the fetcher in
\* flight is the one that follows, in the order metadata, readme, search,
\* structure, the ones whose results were pushed; when executeGitHubTools
\* returns, the list has the four names in that order.
C10_FetchersSequential ==
  \A r \in Req :
    /\ Cardinality(FetchersInFlight(r)) <= 1
    /\ Len(req[r].results) <= 4
    /\ req[r].results = SubSeq(ToolOrder, 1, Len(req[r].results))
    /\ \A c \in FetchersInFlight(r) :
         /\ Len(req[r].results) < 4
         /\ FetcherOf(c) = ToolOrder[Len(req[r].results) + 1]
    /\ req[r].pc = "executeGitHubTools" => Cardinality(FetchersInFlight(r)) = 1
    /\ req[r].pc = "simulateLLMCall" => req[r].results = ToolOrder

\* executeGitHubTools has returned its four results.
C10_Witness ==
  \E r \in Req : req[r].pc = "simulateLLMCall" /\ req[r].results = ToolOrder

\* In this step a fetcher of request r raised into executeGitHubTools.
FetcherRaised(r) ==
  \/ \E o \in MetadataOutcomes :
       MetadataSettles(r, o) /\ fetchRepositoryMetadata(req[r].repoIdentifier, o).raised
  \/ \E o \in ReadmeOutcomes :
       ReadmeSettles(r, o) /\ fetchRepositoryReadme(req[r].repoIdentifier, o).raised
  \/ \E o \in SearchOutcomes :
       /\ SearchSettles(r, o) /\ ~ SearchNeedsContents(o)
       /\ searchRepositoryContents(req[r].repoIdentifier, o).raised
  \/ \E o \in ContentsOutcomes :
       /\ SearchContentsSettles(r, o)
       /\ searchRepositoryContentsFallback(req[r].repoIdentifier, o).raised
  \/ \E o \in ContentsOutcomes :
       StructureSettles(r, o) /\ fetchRepositoryStructure(req[r].repoIdentifier, o).raised

\* C11: when a fetcher raises, executeGitHubTools raises to
\* fallbackProcessing, whose catch answers 500: no result list reaches
\* generateLLMResponse and no later fetcher is invoked; a request leaves
\* executeGitHubTools either that way or with all four results.
C11_OrchestratorPropagates ==
  [][\A r \in Req :
       /\ FetcherRaised(r)
            => /\ req'[r] = Idle
               /\ req'[r].inflight = {} /\ req'[r].results = <<>>
               /\ sent'.req = r /\ sent'.status = 500
               /\ sent'.value = <<"Failed to process request in fallback mode">>
       /\ (req[r].pc = "executeGitHubTools" /\ req'[r].pc # "executeGitHubTools")
            => \/ req'[r].pc = "simulateLLMCall" /\ Len(req'[r].results) = 4
               \/ req'[r] = Idle /\ sent'.req = r /\ sent'.status = 500]_vars

\* The metadata fetcher raised and the request was answered 500 with no
\* further fetch.
C11_Witness ==
  \E r \in Req :
    /\ sent.req = r /\ sent.status = 500
    /\ sent.value = <<"Failed to process request in fallback mode">>
    /\ req[r] = Idle

\* The three shapes a response has.
IsResponseShape(resp) ==
  /\ Len(resp.value) = 1
  /\ \/ resp.status = 200 /\ resp.key = "response"
     \/ resp.status \in {400, 500} /\ resp.key = "error"

\* A step sends a response only to a request being handled, of one of the
\* three shapes, and with it the handler ends; a handler never ends without
\* sending one.
AnsweredOnce ==
  \A r \in Req :
    /\ sent'.req = r
         => /\ IsResponseShape(sent')
            /\ req'[r] = Idle
            /\ req[r].pc # "idle" \/ (event'.type = "request" /\ event'.req = r)
    /\ (req[r].pc # "idle" /\ req'[r].pc = "idle") => sent'.req = r
    /\ (event'.type = "request" /\ event'.req = r /\ req'[r].pc = "idle") => sent'.req = r

\* C24: every request whose upstream calls each complete or fail eventually
\* receives exactly one response, which is 200 {response}, 400 {error} or
\* 500 {error}; no exception escapes the handler and no request is answered
\* twice.
C24_ExactlyOneResponse ==
  /\ [][AnsweredOnce]_vars
  /\ \A r \in Req : (req[r].pc # "idle") ~> (req[r].pc = "idle")

\* A request whose metadata fetch failed in the fallback has just been
\* answered, with 500.
C24_Witness ==
  /\ sent.req \in Req
  /\ sent.status = 500
  /\ sent.value = <<"Failed to process request in fallback mode">>
  /\ req[sent.req] = Idle

\* The network calls of a request, in the order the code can issue them.
CallOrder ==
  << "probe", "generate", "fetch_repository_metadata", "fetch_repository_readme",
     "search_repository_contents", "search_repository_contents:contents",
     "fetch_repository_structure", "timer" >>
CallRank(c) == CHOOSE i \in 1..Len(CallOrder) : CallOrder[i] = c

\* How far a handler has come: 0 before its first await, then the rank of
\* the call it awaits.
Progress(l) ==
  IF l.inflight = {} THEN 0
  ELSE CHOOSE i \in 1..Len(CallOrder) :
         /\ CallOrder[i] \in l.inflight
         /\ \A c \in l.inflight : CallRank(c) <= i

\* The step is the settling of call c of request r.
Settles(r, c) ==
  \/ c = "probe" /\ \E o \in ProbeOutcomes : ProbeSettles(r, o)
  \/ c = "generate" /\ \E ok \in BOOLEAN : GenerateSettles(r, ok)
  \/ c = "fetch_repository_metadata" /\ \E o \in MetadataOutcomes : MetadataSettles(r, o)
  \/ c = "fetch_repository_readme" /\ \E o \in ReadmeOutcomes : ReadmeSettles(r, o)
  \/ c = "search_repository_contents" /\ \E o \in SearchOutcomes : SearchSettles(r, o)
  \/ c = "search_repository_contents:contents"
       /\ \E o \in ContentsOutcomes : SearchContentsSettles(r, o)
  \/ c = "fetch_repository_structure" /\ \E o \in ContentsOutcomes : StructureSettles(r, o)

\* Within a request every call is issued when the handler first comes to
\* it and is gone for good once it has settled; the agent is constructed
\* only as the request arrives.
NothingRetried ==
  /\ \A r \in Req, i \in 1..Len(CallOrder) :
       LET c == CallOrder[i]
       IN /\ (c \in req'[r].inflight /\ c \notin req[r].inflight)
               => req[r].pc = "idle" \/ Progress(req[r]) < i
          /\ Settles(r, c) => c \notin req'[r].inflight
  /\ \A r \in Req :
       (req[r].pc # "idle" /\ req'[r] # req[r])
         => req'[r].pc = "idle" \/ Progress(req'[r]) > Progress(req[r])
  /\ (mastraPromise' # mastraPromise /\ mastraPromise' # 0)
       => (event'.type = "request" /\ req[event'.req].pc = "idle")

\* C25: within one request the agent construction, the liveness probe, the
\* completion call and each of the four fetchers are attempted at most
\* once, and a failed GitHub call is never issued again; the only second
\* GitHub call of a fetcher is the single contents call of the search
\* fetcher.
C25_NothingRetried == [][NothingRetried]_vars

\* The README fetch of a request has settled and the search has been issued
\* next, the README fetch being gone.
C25_Witness ==
  \E r \in Req :
    /\ req[r].pc = "executeGitHubTools"
    /\ req[r].inflight = {"search_repository_contents"}
    /\ req[r].results = <<"fetch_repository_metadata", "fetch_repository_readme">>

\* C26: every network call is bounded by a timeout, so that a request in
\* which some upstream call never answers is still answered in the end.
C26_AnsweredWhateverUpstream ==
  \A r \in Req : (req[r].pc \notin {"idle", "getMastraComponents"}) ~> (req[r].pc = "idle")

\* The response 500 of fallbackProcessing's catch, sent to request r.
FallbackFailed(r) ==
  /\ sent'.req = r
  /\ sent'.status = 500
  /\ sent'.key = "error"
  /\ sent'.value = <<"Failed to process request in fallback mode">>

\* In the pipeline, a step answers 500 exactly when it is the failure of the
\* metadata fetch; once the metadata has been fetched, whatever the other
\* fetches and the synthesis do, the answer is a 200.
FallbackFailsWithMetadata ==
  \A r \in Req :
    /\ FallbackFailed(r)
         <=> \E o \in MetadataOutcomes \ MetadataBodies : MetadataSettles(r, o)
    /\ (/\ req[r].pc \in {"executeGitHubTools", "simulateLLMCall"}
        /\ "fetch_repository_metadata" \notin req[r].inflight
        /\ req'[r] # req[r])
         => \/ req'[r].pc \in {"executeGitHubTools", "simulateLLMCall"} /\ sent'.req # r
            \/ sent'.req = r /\ sent'.status = 200 /\ sent'.key = "response"
    /\ \A o \in FetchFailures :
         (ReadmeSettles(r, o) \/ SearchSettles(r, o) \/ SearchContentsSettles(r, o)
            \/ StructureSettles(r, o))
           => sent'.req # r

\* C27: the pipeline answers 500 "Failed to process request in fallback
\* mode" if and only if the metadata fetch fails; failures of the readme,
\* search or structure fetch, and a failure inside prompt synthesis or text
\* extraction, still end in a 200.
C27_Only500IsMetadata == [][FallbackFailsWithMetadata]_vars

\* A failure inside synthesis was answered with 200 and the apology.
C27_Witness ==
  /\ sent.req \in Req
  /\ sent.status = 200
  /\ sent.value = <<"I encountered an error while processing the repository information. "
                      \o "Please try again later.">>

(***************************************************************************)
(* Properties of the prompt synthesizer.                                   *)
(***************************************************************************)
\* The content of the i-th tool result handed to generateLLMResponse.
ContentOf(i) == llm.toolResults[i].content

\* The header line of the i-th block.
HeaderOf(i) == "--- " \o ToolOrder[i] \o " ---\n"

\* The first 2000 characters of a content, followed by the mark.
CutAndMarked(content) == Substring(content, 0, 2000) \o "... (truncated)"

\* The introductory sentence, which embeds the query.
IntroOf(query) ==
  "You are an AI assistant that answers questions about GitHub repositories. \n"
    \o "User's question: \"" \o query \o "\"\n\n"
    \o "I've gathered the following information about the GitHub repository:\n\n"

\* The prompt is the introduction, the four blocks with the embedded texts
\* e[1..4] and the closing instructions.
PromptIs(e) ==
  llm.prompt = IntroOf(llm.query)
                 \o HeaderOf(1) \o e[1] \o "\n\n" \o HeaderOf(2) \o e[2] \o "\n\n"
                 \o HeaderOf(3) \o e[3] \o "\n\n" \o HeaderOf(4) \o e[4] \o "\n\n"
                 \o "Based on the above information, please answer the user's question accurately. \n"
                 \o "Focus only on the information provided and what can be directly inferred from it.\n"
                 \o "If you don't have enough information, acknowledge that limitation.\n"
                 \o "Format your response in a clear, helpful way."

\* C12: the prompt is the introductory sentence with the query, then the
\* four blocks in the order metadata, readme, search, structure, each a
\* header line `--- name ---` directly followed by that result's content,
\* whole or truncated, and a blank line, then the closing instructions.
C12_PromptLayout ==
  llm.stage # "idle"
    => \E e \in [1..4 -> {"whole", "cut"}] :
         PromptIs([i \in 1..4 |-> IF e[i] = "whole" THEN ContentOf(i)
                                  ELSE CutAndMarked(ContentOf(i))])

\* A prompt was synthesized from a metadata content longer than 2000
\* characters and a README that has Markdown headers.
C12_Witness ==
  /\ llm.stage = "simulateLLMCall"
  /\ Len(ContentOf(1)) > 2000
  /\ Includes(ContentOf(2), "## Features")
  /\ Includes(llm.prompt, "--- fetch_repository_structure ---\n")

\* The texts embedded in the prompt: for each of the four blocks, the text
\* between its header line and the blank line that ends the block.
EmbeddedTexts ==
  LET p == llm.prompt
      from1 == Len(IntroOf(llm.query)) + Len(HeaderOf(1))
      end1 == IndexOf(p, "\n\n" \o HeaderOf(2), from1)
      from2 == end1 + 2 + Len(HeaderOf(2))
      end2 == IndexOf(p, "\n\n" \o HeaderOf(3), from2)
      from3 == end2 + 2 + Len(HeaderOf(3))
      end3 == IndexOf(p, "\n\n" \o HeaderOf(4), from3)
      from4 == end3 + 2 + Len(HeaderOf(4))
      end4 == IndexOf(p, "\n\nBased on the above information", from4)
  IN << [header |-> Substring(p, from1 - Len(HeaderOf(1)), from1),
         text |-> Substring(p, from1, end1)],
        [header |-> Substring(p, from2 - Len(HeaderOf(2)), from2),
         text |-> Substring(p, from2, end2)],
        [header |-> Substring(p, from3 - Len(HeaderOf(3)), from3),
         text |-> Substring(p, from3, end3)],
        [header |-> Substring(p, from4 - Len(HeaderOf(4)), from4),
         text |-> Substring(p, from4, end4)] >>

\* C13: a content longer than 2000 characters is embedded as its first 2000
\* characters followed by "... (truncated)"; a content of 2000 characters
\* or fewer is embedded unchanged, with no truncation mark.
C13_TruncationExact ==
  llm.stage # "idle"
    => LET e == EmbeddedTexts
       IN \A i \in 1..4 :
            /\ e[i].header = HeaderOf(i)
            /\ Len(ContentOf(i)) > 2000 => e[i].text = CutAndMarked(ContentOf(i))
            /\ Len(ContentOf(i)) <= 2000
                 => e[i].text = ContentOf(i) /\ Len(e[i].text) = Len(ContentOf(i))

\* A README of exactly 2000 characters was embedded whole next to a
\* metadata content that was cut.
C13_Witness ==
  /\ llm.stage = "simulateLLMCall"
  /\ Len(ContentOf(2)) = 2000 /\ EmbeddedTexts[2].text = ContentOf(2)
  /\ Len(ContentOf(1)) > 2000 /\ EmbeddedTexts[1].text = CutAndMarked(ContentOf(1))

\* C14 (as claimed): the text embedded between a result's header line and
\* the blank line that ends it does not exceed 2000 characters.
C14_EmbeddedAtMost2000 ==
  llm.stage # "idle"
    => LET e == EmbeddedTexts IN \A i \in 1..4 : Len(e[i].text) <= 2000

\* C14 (amended): the embedded text holds at most 2000 characters of the
\* result's content; when the content was cut, the 15 characters of the
\* mark "... (truncated)" follow them, 2015 characters in all.
C14_EmbeddedAtMost2000PlusMark ==
  llm.stage # "idle"
    => LET e == EmbeddedTexts
       IN \A i \in 1..4 :
            /\ Len(e[i].text) <= 2015
            /\ Len(e[i].text) > 2000
                 => /\ Len(ContentOf(i)) > 2000
                    /\ SubstringFrom(e[i].text, 2000) = "... (truncated)"
            /\ Substring(e[i].text, 0, 2000) = Substring(ContentOf(i), 0, 2000)

\* A cut content is embedded with its mark, 2015 characters long.
C14_Witness ==
  /\ llm.stage = "simulateLLMCall"
  /\ \E i \in 1..4 : Len(ContentOf(i)) > 2000 /\ Len(EmbeddedTexts[i].text) = 2015

(***************************************************************************)
(* Properties of the fallback generator.                                   *)
(***************************************************************************)
\* The prompt holds the member `"name": value` of a JSON object, written
\* with or without a space after the colon.
PromptHasMember(name, value) ==
  \/ Includes(llm.prompt, "\"" \o name \o "\":" \o value)
  \/ Includes(llm.prompt, "\"" \o name \o "\": " \o value)

\* C17: the response contains the values extracted for full_name,
\* stargazers_count and description, whether or not a section was found: the
\* values the prompt gives them, and for a field absent from the prompt
\* its default ("eddycjy/go-gin-example", "many", "a Go Gin example with
\* useful features").
C17_ResponseCarriesFields ==
  llm.stage = "returned"
    => LET l == llm.locals
       IN /\ Includes(l.response, l.repoName)
          /\ Includes(l.response, l.stars)
          /\ Includes(l.response, l.description)
          /\ \A v \in {"octo/demo", "acme/lib"} :
               PromptHasMember("full_name", "\"" \o v \o "\"") => Includes(l.response, v)
          /\ \A v \in {"42", "10"} :
               PromptHasMember("stargazers_count", v) => Includes(l.response, v)
          /\ \A v \in {"a demo repo", "test repo"} :
               PromptHasMember("description", "\"" \o v \o "\"") => Includes(l.response, v)
          /\ ~ Includes(llm.prompt, "\"full_name\"")
               => Includes(l.response, "eddycjy/go-gin-example")
          /\ ~ Includes(llm.prompt, "\"stargazers_count\"")
               => Includes(l.response, "many stars")
          /\ ~ Includes(llm.prompt, "\"description\"")
               => Includes(l.response, "a Go Gin example with useful features")

\* The prompt gave octo/demo, 42 and "a demo repo", no section matched, and
\* the generic response carries the three.
C17_Witness ==
  /\ llm.stage = "returned"
  /\ PromptHasMember("full_name", "\"octo/demo\"")
  /\ PromptHasMember("stargazers_count", "42")
  /\ PromptHasMember("description", "\"a demo repo\"")
  /\ llm.locals.relevantContent = ""
  /\ Includes(llm.locals.response, "The repository octo/demo is a a demo repo. It has 42 stars")

\* C18: the README section used for extraction is the text of
\* the prompt between the header `--- fetch_repository_readme ---` and the
\* next `---`, which is the embedded content of the readme ToolResult,
\* whatever the query and the other results are (surrounding whitespace
\* apart).
C18_ReadmeSectionIsEmbeddedReadme ==
  llm.stage = "returned"
    => LET header == "--- fetch_repository_readme ---"
           from == IndexOf(llm.prompt, header, 0) + Len(header)
           next == IndexOf(llm.prompt, "---", from)
       IN /\ llm.locals.readmeSection = Trim(Substring(llm.prompt, from, next))
          /\ llm.locals.readmeSection = Trim(EmbeddedTexts[2].text)

\* In the README section, sec is the section of the marker: it starts at
\* the first occurrence of the marker and ends right before the next "##",
\* or at the end of the README section when no "##" follows.
IsSectionOf(sec, readme, marker) ==
  LET start == IndexOf(readme, marker, 0)
  IN /\ start > -1
     /\ OccursAt(readme, sec, start)
     /\ OccursAt(sec, marker, 0)
     /\ IndexOf(sec, "##", 1) = -1
     /\ \/ start + Len(sec) = Len(readme)
        \/ OccursAt(readme, "##", start + Len(sec))

\* The question holds a keyword of the first, second, third group.
AsksToRun(q) == Includes(q, "run") \/ Includes(q, "install") \/ Includes(q, "setup")
AsksFeatures(q) ==
  Includes(q, "feature") \/ Includes(q, "what") \/ Includes(q, "capabilities")
AsksApi(q) == Includes(q, "api") \/ Includes(q, "endpoint")

\* relevantContent is made of the Installation and How-to-run sections
\* present in the README section: both, Installation first, when both exist.
SelectsInstallationAndRun(l) ==
  LET rs == l.readmeSection
      rc == l.relevantContent
      hasInstallation == Includes(rs, "## Installation")
      hasRun == Includes(rs, "## How to run")
  IN /\ (hasInstallation /\ ~ hasRun) => IsSectionOf(rc, rs, "## Installation")
     /\ (~ hasInstallation /\ ~ hasRun) => rc = ""
     /\ hasRun
          => \E k \in 0..(Len(rc) - 2) :
               /\ OccursAt(rc, "\n\n", k)
               /\ IsSectionOf(SubstringFrom(rc, k + 2), rs, "## How to run")
               /\ IF hasInstallation
                    THEN IsSectionOf(Substring(rc, 0, k), rs, "## Installation")
                    ELSE k = 0

\* relevantContent is the Features section, if the README section has one.
SelectsFeatures(l) ==
  IF Includes(l.readmeSection, "## Features")
    THEN IsSectionOf(l.relevantContent, l.readmeSection, "## Features")
    ELSE l.relevantContent = ""

\* relevantContent is the text from the first "API" of the README section
\* up to the next "##", or 500 characters of it when no "##" follows.
SelectsApi(l) ==
  LET rs == l.readmeSection
      rc == l.relevantContent
      start == IndexOf(rs, "API", 0)
      next == IndexOf(rs, "##", start)
  IN IF start > -1
       THEN /\ OccursAt(rs, rc, start)
            /\ Len(rc) = IF next > -1 THEN next - start
                         ELSE IF Len(rs) - start < 500 THEN Len(rs) - start
                         ELSE 500
       ELSE rc = ""

\* C19: an extracted section (Installation, How to run, Features) starts
\* at its start marker and ends right before the next "##" after the
\* marker, or at the end of the README section when none follows; a
\* question containing "install" and the README "## Installation\nRun npm
\* install\n## Usage\n..." give "## Installation\nRun npm install\n".
C19_SectionBounds ==
  llm.stage = "returned"
    => LET l == llm.locals
       IN /\ AsksToRun(l.query) => SelectsInstallationAndRun(l)
          /\ (~ AsksToRun(l.query) /\ AsksFeatures(l.query)) => SelectsFeatures(l)
          /\ (Includes(l.query, "install")
                /\ OccursAt(l.readmeSection, "## Installation\nRun npm install\n## Usage\n", 0))
               => l.relevantContent = "## Installation\nRun npm install\n"

\* The Installation section of the example was extracted up to "## Usage".
C19_Witness ==
  /\ llm.stage = "returned"
  /\ Includes(llm.locals.query, "install")
  /\ OccursAt(llm.locals.readmeSection, "## Installation\nRun npm install\n## Usage\n", 0)
  /\ llm.locals.relevantContent = "## Installation\nRun npm install\n"

\* C20: a question containing run, install or setup selects
\* the Installation and How-to-run sections; one containing feature, what
\* or capabilities selects the Features section; one containing api or
\* endpoint selects the text from the first "API" up to the next "##", or a
\* window of 500 characters.
C20_KeywordSelectsSection ==
  llm.stage = "returned"
    => LET l == llm.locals
       IN /\ AsksToRun(l.query) => SelectsInstallationAndRun(l)
          /\ AsksFeatures(l.query) => SelectsFeatures(l)
          /\ AsksApi(l.query) => SelectsApi(l)

\* The keyword groups as the else-if chain applies them: in the order
\* run/install/setup, feature/what/capabilities, api/endpoint, the first
\* group that occurs in the question selecting its section as above.
FirstKeywordSelectsSection ==
  llm.stage = "returned"
    => LET l == llm.locals
       IN /\ AsksToRun(l.query) => SelectsInstallationAndRun(l)
          /\ (~ AsksToRun(l.query) /\ AsksFeatures(l.query)) => SelectsFeatures(l)
          /\ (~ AsksToRun(l.query) /\ ~ AsksFeatures(l.query) /\ AsksApi(l.query))
               => SelectsApi(l)

\* A section that the question's keyword group asks for is present in the
\* README section.
SectionFound(l) ==
  LET q == l.query
      rs == l.readmeSection
  IN IF AsksToRun(q)
       THEN Includes(rs, "## Installation") \/ Includes(rs, "## How to run")
     ELSE IF AsksFeatures(q) THEN Includes(rs, "## Features")
     ELSE AsksApi(q) /\ Includes(rs, "API")

\* The generic paragraph built from the description and the stars.
IsGenericParagraph(l) ==
  LET opening == "The repository " \o l.repoName \o " is a " \o l.description
                   \o ". It has " \o l.stars \o " stars on GitHub.\n\n"
      ending == "please ask about particular aspects like installation, features, "
                  \o "or API endpoints."
  IN /\ OccursAt(l.response, opening, 0)
     /\ OccursAt(l.response, ending, Len(l.response) - Len(ending))
     /\ ~ Includes(l.response, "I found this information")

\* C21: the response starts with "Based on the GitHub repository
\* {full_name}, I found this information:" and embeds the section if and
\* only if a relevant section was found; in every other case (no keyword
\* in the question, or the keyword's section absent from the README) it is
\* the generic paragraph built from description and stars, which ends by
\* inviting questions about installation, features, or API endpoints.
C21_ComposedIffSectionFound ==
  llm.stage = "returned"
    => LET l == llm.locals
           opening == "Based on the GitHub repository " \o l.repoName
                        \o ", I found this information:\n\n"
       IN /\ SectionFound(l) <=> l.relevantContent # ""
          /\ SectionFound(l)
               => /\ OccursAt(l.response, opening, 0)
                  /\ OccursAt(l.response, l.relevantContent, Len(opening))
          /\ ~ SectionFound(l) => IsGenericParagraph(l)

\* A question about installing met a README without Installation or How to
\* run section and got the generic paragraph.
C21_Witness ==
  /\ llm.stage = "returned"
  /\ AsksToRun(llm.locals.query)
  /\ Includes(llm.locals.readmeSection, "## API")
  /\ ~ SectionFound(llm.locals)
  /\ IsGenericParagraph(llm.locals)

\* C28: exactly one keyword group is applied per question, tried in the
\* order run/install/setup, feature/what/capabilities, api/endpoint and
\* matched as substrings: the API extraction is applied only to questions
\* with none of run, install, setup, feature, what, capabilities ("What API
\* endpoints are available?" gets the Features section or the generic
\* paragraph), and a group whose section is absent from the README does not
\* fall through to a later group.
C28_KeywordPrecedence ==
  /\ FirstKeywordSelectsSection
  /\ llm.stage = "returned"
       => LET l == llm.locals
          IN /\ (AsksToRun(l.query) \/ AsksFeatures(l.query))
                  => ~ OccursAt(l.relevantContent, "API", 0)
             /\ (AsksToRun(l.query) /\ ~ Includes(l.readmeSection, "## Installation")
                   /\ ~ Includes(l.readmeSection, "## How to run"))
                  => IsGenericParagraph(l)
             /\ (~ AsksToRun(l.query) /\ AsksFeatures(l.query)
                   /\ ~ Includes(l.readmeSection, "## Features"))
                  => IsGenericParagraph(l)
             /\ l.query = "what api endpoints are available?"
                  => \/ IsSectionOf(l.relevantContent, l.readmeSection, "## Features")
                     \/ IsGenericParagraph(l)

\* "What API endpoints are available?" met a README with an API section
\* and no Features section, and got the generic paragraph.
C28_Witness ==
  /\ llm.stage = "returned"
  /\ llm.locals.query = "what api endpoints are available?"
  /\ Includes(llm.locals.readmeSection, "## API")
  /\ ~ Includes(llm.locals.readmeSection, "## Features")
  /\ IsGenericParagraph(llm.locals)

(***************************************************************************)
(* Properties of the deterministic pipeline, end to end.                   *)
(***************************************************************************)
\* The README GitHub answered the request in fb with, if it answered one.
ReadmeAnswered == ReadmeBody(fb.repoIdentifier, fb.outcomes[2])

\* The Installation section of a README: from "## Installation" up to the
\* next "##" or the end.
InstallationSectionOf(readme) ==
  LET start == IndexOf(readme, "## Installation", 0)
      next == IndexOf(readme, "##", start + 3)
  IN IF next > -1 THEN Substring(readme, start, next) ELSE SubstringFrom(readme, start)

\* The end-to-end example: the request of the documentation met the
\* metadata of the documentation and a README with an Installation section.
EndToEndExample ==
  /\ fb.stage = "answered"
  /\ fb.body = [query |-> Str("How do I run this?"), owner |-> Str("octo"),
                repo |-> Str("demo")]
  /\ fb.outcomes[1] = "json:stars"
  /\ fb.outcomes[2] \in ReadmeBodies
  /\ Includes(ReadmeAnswered, "## Installation")

\* C22: the request {query: "How do I run this?", owner: "octo", repo:
\* "demo"}, met by the metadata {"stargazers_count": 10, "description":
\* "test repo"} and a README that contains an Installation section, is
\* answered with status 200 and a response string that contains the text of
\* the Installation section, 10 and "test repo".
C22_EndToEnd ==
  EndToEndExample
    => /\ fb.response.status = 200
       /\ fb.response.key = "response"
       /\ Includes(fb.response.value[1], InstallationSectionOf(ReadmeAnswered))
       /\ Includes(fb.response.value[1], "10")
       /\ Includes(fb.response.value[1], "test repo")

\* C23: a request repeated with the same query, owner and repo and the same
\* upstream responses gets the same fallback response as the first time,
\* whatever requests were processed in between and whatever they left in
\* the cached handle.
C23_FallbackDeterministic ==
  (/\ fb.stage = "answered"
   /\ fb.replay.recorded
   /\ [body |-> fb.body, outcomes |-> fb.outcomes] = ReplayedRequest)
    => fb.response = fb.replay.response

\* The replayed request was answered again after a request for another
\* repository had been answered and had set the context of the cached handle.
C23_Witness ==
  /\ fb.stage = "answered"
  /\ fb.replay.recorded
  /\ fb.replay.between
  /\ [body |-> fb.body, outcomes |-> fb.outcomes] = ReplayedRequest
  /\ fb.context = [owner |-> "acme", name |-> "lib"]
  /\ fb.response.status = 200

(***************************************************************************)
(* Properties of the recent repositories of the page.                      *)
(***************************************************************************)
\* No two entries of the list name the same owner and repository.
NoTwoAlike(repos) ==
  \A i, j \in 1..Len(repos) :
    (repos[i].owner = repos[j].owner /\ repos[i].repo = repos[j].repo) => i = j

\* What a submission leaves alone when it rejects the URL.
RejectionKeeps ==
  \A text \in GithubUrls :
    (ui'.submit = "rejected" /\ ui'.githubUrl = text /\ handleGithubUrlSubmit(text))
      => /\ ui'.repoOwner = ui.repoOwner
         /\ ui'.repoName = ui.repoName
         /\ ui'.recentRepos = ui.recentRepos
         /\ ui'.error # ""

\* C30: from the default list on, after any successful submissions the
\* recent list has no two entries alike, has the repository loaded last at
\* index 0, holds at most 5 entries and is the list last written under
\* gitmcp-recent-repos; a rejected URL leaves repoOwner, repoName and
\* recentRepos unchanged and sets the error message.
C30_RecentRepos ==
  /\ [](ui.mounted =>
          /\ NoTwoAlike(ui.recentRepos)
          /\ Len(ui.recentRepos) <= 5
          /\ ui.loaded # <<>> => ui.recentRepos[1] = ui.loaded[1]
          /\ "gitmcp-recent-repos" \in DOMAIN ui.localStorage
               => ui.localStorage["gitmcp-recent-repos"]
                    = "[" \o StringifyRepos(ui.recentRepos) \o "]")
  /\ [][RejectionKeeps]_vars

\* Five repositories were loaded after the default one, which the cut has
\* dropped from the list, and the URL of another site was then rejected.
C30_Witness ==
  /\ ui.mounted
  /\ ui.submit = "rejected"
  /\ ui.githubUrl = "https://gitlab.com/octo/demo"
  /\ ui.loaded # <<>>
  /\ Len(ui.recentRepos) = 5
  /\ ~ RepoExists(ui.recentRepos, "eddycjy", "go-gin-example")
  /\ "gitmcp-recent-repos" \in DOMAIN ui.localStorage

(***************************************************************************)
(* Properties of agent construction.                                       *)
(***************************************************************************)
\* C29: createGitHubAgent never raises because the MCP tool server or the
\* model listing is unreachable: if mcp.getTools fails the agent has only
\* the four built-in tools and the model llama3; otherwise the model is
\* llama3.1-resume:custom, unless the listing was fetched successfully and
\* does not contain it, in which case it is llama3.
C29_AgentAlwaysBuilt ==
  agent.stage = "returned"
    => /\ ~ agent.result.raised
       /\ IF agent.getTools.kind = "throws"
            THEN /\ DOMAIN agent.result.tools =
                      {"fetchRepositoryMetadata", "fetchRepositoryReadme",
                       "searchRepositoryContents", "fetchFileContent"}
                 /\ \A n \in DOMAIN agent.result.tools : agent.result.tools[n] = "builtin"
                 /\ agent.result.model = "llama3"
            ELSE agent.result.model =
                   IF /\ agent.listing.kind \in {"models", "nomodels"}
                      /\ "llama3.1-resume:custom" \notin agent.listing.models
                     THEN "llama3"
                     ELSE "llama3.1-resume:custom"

\* The tools were fetched, the listing answered with a status that is not
\* ok, and the agent was built with the preferred model.
C29_Witness ==
  /\ agent.stage = "returned"
  /\ agent.getTools.kind = "tools"
  /\ agent.listing.kind = "nonok"
  /\ agent.result.model = "llama3.1-resume:custom"
  /\ "search_code" \in DOMAIN agent.result.tools

(***************************************************************************)
(* Properties of the search string.                                        *)
(***************************************************************************)
RECURSIVE Cleaned(_)
\* A query lower-cased, without the characters that are neither word
\* characters (letters, digits, underscore) nor whitespace.
Cleaned(q) ==
  IF q = "" THEN ""
  ELSE LET c == ToLowerCase(Head(q))
           word == c \in {"a", "b", "c", "d", "e", "f", "g", "h", "i", "j", "k", "l", "m",
                          "n", "o", "p", "q", "r", "s", "t", "u", "v", "w", "x", "y", "z",
                          "0", "1", "2", "3", "4", "5", "6", "7", "8", "9", "_"}
           space == c \in {" ", "\t", "\n", "\r", "\f"}
       IN (IF word \/ space THEN c ELSE "") \o Cleaned(Tail(q))

\* Index i of t is outside t or holds whitespace.
IsGap(t, i) == i < 0 \/ i >= Len(t) \/ CharAt(t, i) \in {" ", "\t", "\n", "\r", "\f"}

\* The token of t that starts at index a: the maximal run without whitespace.
TokenAt(t, a) ==
  LET b == CHOOSE b \in a..(Len(t) - 1) :
             IsGap(t, b + 1) /\ \A i \in a..b : ~ IsGap(t, i)
  IN Substring(t, a, b + 1)

\* The indices at which the tokens of t longer than 3 characters start.
LongTokenStarts(t) ==
  {a \in 0..(Len(t) - 1) :
     ~ IsGap(t, a) /\ IsGap(t, a - 1) /\ Len(TokenAt(t, a)) > 3}

\* The search string the rule gives for a query.
DerivedSearchString(q) ==
  LET t == Cleaned(q)
      L == LongTokenStarts(t)
      a1 == CHOOSE a \in L : \A x \in L : a <= x
      a2 == CHOOSE a \in L \ {a1} : \A x \in L \ {a1} : a <= x
      a3 == CHOOSE a \in L \ {a1, a2} : \A x \in L \ {a1, a2} : a <= x
  IN IF L = {} THEN "api+endpoint+feature"
     ELSE IF Cardinality(L) = 1 THEN TokenAt(t, a1)
     ELSE IF Cardinality(L) = 2 THEN TokenAt(t, a1) \o "+" \o TokenAt(t, a2)
     ELSE TokenAt(t, a1) \o "+" \o TokenAt(t, a2) \o "+" \o TokenAt(t, a3)

CarriesError(v) ==
  \E msg \in {"Failed to fetch repository metadata", "GitHub API error"} :
    v = ErrorObject(msg)

\* C8 (as claimed): fetchRepositoryMetadata, in the pipeline and as agent
\* tool, answers a non-2xx status or a network failure by returning an
\* object with an error description, and does not raise.
C8_MetadataNeverRaises ==
  (/\ tool.stage = "returned"
   /\ tool.name \in {"fetch_repository_metadata", "fetchRepositoryMetadata"}
   /\ tool.calls[1] \in {"nonok", "neterr"})
    => ~ tool.ret.raised /\ CarriesError(tool.ret.value)

\* The value carries a note that explains the fallback.
CarriesNote(v) == v.t = "object" /\ Includes(v.v, "\"note\":")

\* C16 (as claimed): when the code-search call fails (status not 2xx, or
\* network failure) the search fetcher next issues GET /contents and
\* returns that listing's items together with a note; it returns an empty
\* item list only when the contents call failed as well; the contents call
\* is not issued after a successful search.
C16_SearchFallsBackWithNote ==
  (tool.stage = "returned" /\ tool.name \in SearchTools)
    => /\ tool.calls[1] \in {"nonok", "neterr"} => Len(tool.calls) = 2
       /\ (Len(tool.calls) = 2 /\ tool.calls[2] = "list")
            => /\ CarriesNote(tool.ret.value)
               /\ Includes(JSONStringify(tool.ret.value),
                           JSONStringify(ContentsListing(tool.repo)))
       /\ tool.calls[1] \in {"items", "noitems"} => Len(tool.calls) = 1

\* C9: the pipeline's readme, search and structure fetchers never raise;
\* readme returns "README content not available" for a body without
\* content and "Could not fetch README content due to an error" after a
\* network error, a non-2xx status or an unparsable body; structure returns
\* the parsed listing, or an empty list after a failure; search returns a
\* list.
C9_FetchersAbsorbFailures ==
  (/\ tool.stage = "returned"
   /\ tool.name \in {"fetch_repository_readme", "search_repository_contents",
                     "fetch_repository_structure"})
    => /\ ~ tool.ret.raised
       /\ tool.name = "fetch_repository_readme"
            => /\ tool.calls[1] = "nocontent"
                    => tool.ret.value = Text("README content not available")
               /\ tool.calls[1] \in {"neterr", "nonok", "badjson"}
                    => tool.ret.value =
                         Text("Could not fetch README content due to an error")
               /\ tool.ret.value.t = "string"
       /\ tool.name = "fetch_repository_structure"
            => /\ tool.calls[1] = "list" => tool.ret.value = ContentsListing(tool.repo)
               /\ tool.calls[1] \in {"neterr", "nonok", "badjson"}
                    => tool.ret.value = Arr("")
       /\ tool.name = "search_repository_contents" => tool.ret.value.t = "array"

\* The README fetcher returned its failure sentinel after a failed GET.
C9_Witness ==
  /\ tool.stage = "returned"
  /\ tool.name = "fetch_repository_readme"
  /\ tool.calls[1] \in {"neterr", "nonok", "badjson"}
  /\ tool.ret.value = Text("Could not fetch README content due to an error")

====
